---- MODULE Spec2Model ----
(***************************************************************************)
(* Model of the request execution engine of httpr: Client.Do               *)
(* (src/client.go), the settings built by the functional options           *)
(* (src/options.go, src/httpr.go) and one materialization attempt          *)
(* (doRequest in src/client.go).                                           *)
(*                                                                         *)
(* Errors are modelled as wrap chains: a sequence of layers, outermost     *)
(* first; the nil error is the empty sequence.  fmt.Errorf("...%w", e)     *)
(* puts one layer in front of e, errors.Unwrap removes it.                 *)
(***************************************************************************)
EXTENDS Integers, Sequences, FiniteSets, TLC

VARIABLES
    c_settings,     \* Client.settings, the client's standing settings
    settings,       \* Do: the effective settings of the call
    pc,             \* Do: position of the call
    ctx,            \* req.Context(): "active", "canceled" or "deadline"
    timer,          \* the channel of time.After: "off", "armed", "fired"
    timerDur,       \* the duration the current time.After was given
    r,              \* Do: loop variable r
    retryCount,     \* Do: local retryCount (normalized)
    retryTime,      \* Do: local retryTime
    resp,           \* Do: local resp, the last attempt's response
    err,            \* Do: local err, the last attempt's error
    mustRetry,      \* Do: local mustRetry, the predicate's last answer
    ret,            \* the pair Do returned
    takes,          \* number of calls of rateLimiter.Take
    preCalls,       \* number of calls of the pre-request hook
    attempts,       \* number of calls of doRequest
    postCalls,      \* number of calls of the post-request hook
    condCalls,      \* number of calls of the retry predicate
    waits,          \* number of select statements entered
    bothReady,      \* the last select found both channels ready
    canceledInWait, \* the context ended while Do was parked in the select
    allFailed,      \* every attempt made so far returned a non-nil error
    httpClient,     \* Client.client, the underlying http.Client
    req,            \* the request Do is called with
    callOpts,       \* the options Do was called with
    takenOn,        \* the limiter Take was invoked on, "none" before
    call,           \* the function call last applied on its own
    result,         \* what that call returned
    rb,             \* the RequestBuilder of a chain of setter calls
    chain,          \* the error each setter call of the chain met, in order
    calls,          \* concurrent Do calls on one client: the locals of each
    hookArgs        \* what the post-request hook of the current attempt was given

vars == <<c_settings, settings, pc, ctx, timer, timerDur, r, retryCount,
          retryTime, resp, err, mustRetry, ret, takes, preCalls, attempts,
          postCalls, condCalls, waits, bothReady, canceledInWait, allFailed,
          httpClient, req, callOpts, takenOn, call, result, rb, chain, calls, hookArgs>>

----------------------------------------------------------------------------
(* Bounds of the model *)

MaxRetry == 3

MaxNegRetry == 1

MaxDelay == 1

MaxDelta == 1

RetryCounts == (0 - MaxNegRetry)..MaxRetry

Delays == 0..MaxDelay

Deltas == 0..MaxDelta

----------------------------------------------------------------------------
(* Errors *)

NoErr == <<>>

Layer(kind, num) == [k |-> kind, n |-> num]

\* fmt.Errorf("...: %w", e)
Wrap(layer, e) == <<layer>> \o e

\* errors.Unwrap
Unwrap(e) == IF e = NoErr THEN NoErr ELSE Tail(e)

\* errors.Is(e, target) for a target of one layer
ErrIs(e, layer) == \E i \in 1..Len(e) : e[i] = layer

\* ctx.Err()
CtxErr(c) == IF c = "canceled" THEN <<Layer("context.Canceled", 0)>>
             ELSE IF c = "deadline" THEN <<Layer("context.DeadlineExceeded", 0)>>
             ELSE NoErr

\* the error a veto-ing pre-request hook returns
AbortErr == <<Layer("abort", 0)>>

\* newResponseError(msg, code)
ResponseError(msg, code) == [k |-> "ResponseError", n |-> code, m |-> msg]

\* errors.As(target, &respErr): the first *ResponseError of the chain
FirstResponseError(target) ==
    LET idx == { i \in 1..Len(target) : target[i].k = "ResponseError" }
    IN  IF idx = {} THEN <<>>
        ELSE <<target[CHOOSE i \in idx : \A j \in idx : i <= j]>>

\* ResponseError.Is comparing the messages as well
ResponseErrorIs_WithMsg(e, target) ==
    IF FirstResponseError(target) = <<>> THEN FALSE
    ELSE /\ e.n = FirstResponseError(target)[1].n
         /\ e.m = FirstResponseError(target)[1].m

\* (*ResponseError).Is(target)
ResponseErrorIs(e, target) ==
    IF FirstResponseError(target) = <<>> THEN FALSE
    ELSE e.n = FirstResponseError(target)[1].n

----------------------------------------------------------------------------
(* Responses *)

StatusOK == 200

StatusInternalServerError == 500

StatusRequestTimeout == 408

\* a nil *Response
NilResp == [att |-> 0, raw |-> FALSE, status |-> 0, body |-> <<>>]

\* Response.StatusCode
StatusCode(rp) == IF rp.att = 0 \/ ~rp.raw THEN 0 ELSE rp.status

\* Response.Bytes
Bytes(rp) == IF rp.att = 0 \/ ~rp.raw THEN <<>> ELSE rp.body

\* a zero-initialized Response: a non-nil pointer with no rawResp, no body
ZeroResp == [att |-> 1, raw |-> FALSE, status |-> 0, body |-> <<>>]

\* the names of the Response accessors
Accessors ==
    {"Bytes", "Reader", "String", "StatusCode", "Headers", "Cookies",
     "RequestURL", "Raw"}

\* the zero or empty value of each accessor's result type: an empty byte
\* slice, reader, string, map or cookie slice, 0, a nil *http.Response
ZeroValue(name) ==
    CASE name = "StatusCode" -> [int |-> 0]
      [] name = "RequestURL" -> [str |-> ""]
      [] name = "Raw" -> [ptr |-> "nil"]
      [] OTHER -> [seq |-> <<>>]

\* a nil pointer dereference
Panic == [panic |-> TRUE, val |-> [ptr |-> "nil"]]

Returns(v) == [panic |-> FALSE, val |-> v]

\* one call of an accessor on the *Response rp; Reader, Headers and Cookies
\* read r.rawResp without testing r
Accessor(name, rp) ==
    CASE name = "Bytes" -> Returns([seq |-> Bytes(rp)])
      [] name = "Reader" ->
            IF rp.att = 0 THEN Panic
            ELSE IF ~rp.raw THEN Returns([seq |-> <<>>])
            ELSE Returns([seq |-> rp.body])
      [] name = "String" -> Returns([seq |-> Bytes(rp)])
      [] name = "StatusCode" -> Returns([int |-> StatusCode(rp)])
      [] name = "Headers" ->
            IF rp.att = 0 THEN Panic ELSE Returns([seq |-> <<>>])
      [] name = "Cookies" ->
            IF rp.att = 0 THEN Panic ELSE Returns([seq |-> <<>>])
      [] name = "RequestURL" ->
            IF rp.att = 0 \/ ~rp.raw THEN Returns([str |-> ""])
            ELSE Returns([str |-> "url"])
      [] name = "Raw" ->
            IF rp.att = 0 THEN Returns([ptr |-> "nil"])
            ELSE IF rp.raw THEN Returns([ptr |-> "rawResp"])
            ELSE Returns([ptr |-> "nil"])
      [] OTHER -> Panic

----------------------------------------------------------------------------
(* Settings and options *)

newDefaultSettings ==
    [rateLimiter          |-> "unlimited",
     retryCount           |-> 0,
     retryDelay           |-> 0,
     retryDelayDelta      |-> 0,
     retryConditionFn     |-> "default",
     timeout              |-> 0,
     transport            |-> "nil",
     cookieJar            |-> "nil",
     decompressionEnabled |-> FALSE,
     redirectCheckFn      |-> "default",
     preRequestHookFn     |-> "default",
     postRequestHookFn    |-> "default"]

Opt(name, num, str) == [op |-> name, n |-> num, s |-> str, b |-> FALSE]

WithRetryCount(retries) == Opt("WithRetryCount", retries, "")

WithRetryDelay(delay) == Opt("WithRetryDelay", delay, "")

WithRetryDelayDelta(delayDelta) == Opt("WithRetryDelayDelta", delayDelta, "")

WithRetryCondition(conditionFn) == Opt("WithRetryCondition", 0, conditionFn)

WithPreRequestHook(hookFn) == Opt("WithPreRequestHook", 0, hookFn)

WithPostRequestHook(hookFn) == Opt("WithPostRequestHook", 0, hookFn)

WithRateLimiter(limiter) == Opt("WithRateLimiter", 0, limiter)

WithTimeout(timeout) == Opt("WithTimeout", timeout, "")

WithTransport(transport) == Opt("WithTransport", 0, transport)

WithCheckRedirect(checkFn) == Opt("WithCheckRedirect", 0, checkFn)

WithCookieJar(cookieJar) == Opt("WithCookieJar", 0, cookieJar)

WithAutoDecompression(enabled) ==
    [Opt("WithAutoDecompression", 0, "") EXCEPT !.b = enabled]

\* opt(&settings)
ApplyOption(opt, st) ==
    CASE opt.op = "WithRetryCount" -> [st EXCEPT !.retryCount = opt.n]
      [] opt.op = "WithRetryDelay" -> [st EXCEPT !.retryDelay = opt.n]
      [] opt.op = "WithRetryDelayDelta" -> [st EXCEPT !.retryDelayDelta = opt.n]
      [] opt.op = "WithRetryCondition" -> [st EXCEPT !.retryConditionFn = opt.s]
      [] opt.op = "WithPreRequestHook" ->
            IF opt.s # "nil" THEN [st EXCEPT !.preRequestHookFn = opt.s] ELSE st
      [] opt.op = "WithPostRequestHook" ->
            IF opt.s # "nil" THEN [st EXCEPT !.postRequestHookFn = opt.s] ELSE st
      [] opt.op = "WithRateLimiter" ->
            IF opt.s # "nil" THEN [st EXCEPT !.rateLimiter = opt.s] ELSE st
      [] opt.op = "WithTimeout" -> [st EXCEPT !.timeout = opt.n]
      [] opt.op = "WithTransport" ->
            IF opt.s # "nil" THEN [st EXCEPT !.transport = opt.s] ELSE st
      [] opt.op = "WithCheckRedirect" ->
            IF opt.s # "nil" THEN [st EXCEPT !.redirectCheckFn = opt.s] ELSE st
      [] opt.op = "WithCookieJar" -> [st EXCEPT !.cookieJar = opt.s]
      [] opt.op = "WithAutoDecompression" ->
            [st EXCEPT !.decompressionEnabled = opt.b]
      [] OTHER -> st

RECURSIVE ApplyOptions(_, _)
\* for _, opt := range opts { opt(&settings) }
ApplyOptions(opts, st) ==
    IF opts = <<>> THEN st
    ELSE ApplyOptions(Tail(opts), ApplyOption(Head(opts), st))

\* NewWithClient: the standing settings of a new client
NewWithClient(opts) == ApplyOptions(opts, newDefaultSettings)

\* &http.Client{}, the client New passes to NewWithClient
ZeroHTTPClient == [Transport |-> "nil", Jar |-> "nil", Timeout |-> 0]

\* NewWithClient: what it does to the http.Client it is given
\*   httpClient.Transport = settings.transport
\*   httpClient.Jar = settings.cookieJar
NewWithClientHTTP(hc, opts) ==
    [hc EXCEPT !.Transport = NewWithClient(opts).transport,
               !.Jar = NewWithClient(opts).cookieJar]

\* the retry predicates the calls are run with
Preds == {"default", "never", "onError", "on500"}

\* the pre-request hooks the calls are run with
PreHooks == {"default", "veto"}

\* the option lists clients are constructed with: every retry count with
\* every predicate, the largest retry count with the delays and deltas of
\* which one is the largest, and a vetoing hook
ClientOptLists ==
    { << WithRetryCount(n), WithRetryDelay(MaxDelay), WithRetryDelayDelta(MaxDelta),
         WithRetryCondition(p), WithPreRequestHook("default") >> :
        n \in RetryCounts, p \in Preds }
    \cup { << WithRetryCount(MaxRetry), WithRetryDelay(p[1]),
              WithRetryDelayDelta(p[2]),
              WithRetryCondition("default"), WithPreRequestHook("default") >> :
             p \in { q \in Delays \X Deltas : q[1] = MaxDelay \/ q[2] = MaxDelta } }
    \cup { << WithRetryCount(n), WithRetryDelay(0), WithRetryDelayDelta(0),
              WithRetryCondition("onError"), WithPreRequestHook(h) >> :
             n \in {1, MaxRetry}, h \in PreHooks }

\* option lists of clients constructed with a timeout and their own limiter
TimeoutOptLists ==
    { << WithTimeout(1), WithRetryCount(n), WithRateLimiter("client"),
         WithTransport("client") >> :
        n \in {1, MaxRetry} }

\* the clients the calls are made on: NewWithClient is given the client of
\* New, or a caller's client with its own Timeout
ClientConfigs ==
    { [opts |-> o, client |-> ZeroHTTPClient] : o \in ClientOptLists }
    \cup { [opts |-> o, client |-> hc] :
             o \in TimeoutOptLists,
             hc \in { ZeroHTTPClient, [ZeroHTTPClient EXCEPT !.Timeout = 1] } }

\* the value of the Accept header the gzip decoder is selected by
AcceptGzipHeader == "application/gzip"

\* the requests Do is called with: the Accept header values, and whether
\* the context is context.Background() or carries a deadline and a cancel
NewRequest(accept, ctxKind) ==
    [accept |-> accept, ctx |-> ctxKind, body |-> <<>>, left |-> <<>>,
     getBody |-> FALSE]

\* buildRequest: the body is wrapped in one reader when the request is
\* built; body is what the caller gave, left what the reader still holds.
\* http.NewRequestWithContext sets GetBody for a *strings.Reader, a
\* *bytes.Reader and a *bytes.Buffer, which are the readers of a string and
\* of a []byte and those a caller passes as io.Reader, and for no other
\* io.Reader
buildRequest(accept, ctxKind, body, kind) ==
    [NewRequest(accept, ctxKind) EXCEPT
        !.body = body, !.left = body,
        !.getBody = (kind \in {"string", "[]byte", "*strings.Reader",
                               "*bytes.Reader", "*bytes.Buffer"})]

Requests ==
    { NewRequest(a, k) : a \in { <<>>, <<AcceptGzipHeader>> },
                         k \in {"Background", "WithTimeout"} }
    \cup { buildRequest(<<>>, "Background", <<1>>, k) : k \in {"[]byte", "*bytes.Buffer", "io.Reader"} }

\* the option lists Do is called with
CallOptLists ==
    { <<>>,
      << WithRetryCount(MaxRetry - 1), WithRateLimiter("custom"),
         WithTransport("call") >>,
      << WithRetryCondition("onError"), WithRetryCount(MaxRetry - 1),
         WithRetryDelayDelta(MaxDelta) >>,
      << WithAutoDecompression(TRUE), WithPostRequestHook("nil") >> }

----------------------------------------------------------------------------
(* Caller-supplied functions *)

\* settings.preRequestHookFn(req)
PreRequestHookFn(kind) == IF kind = "veto" THEN AbortErr ELSE NoErr

\* RetryConditionFn whose default predicate retries failed attempts only
RetryConditionFn_OnError(kind, rp, e) ==
    CASE kind = "default" -> e # NoErr
      [] kind = "never" -> FALSE
      [] kind = "onError" -> e # NoErr
      [] kind = "on500" -> StatusCode(rp) = StatusInternalServerError
      [] OTHER -> TRUE

\* settings.retryConditionFn(resp, err)
RetryConditionFn(kind, rp, e) ==
    CASE kind = "default" -> TRUE
      [] kind = "never" -> FALSE
      [] kind = "onError" -> e # NoErr
      [] kind = "on500" -> StatusCode(rp) = StatusInternalServerError
      [] OTHER -> TRUE

----------------------------------------------------------------------------
(* One attempt: doRequest *)

\* bounds of the bodies
MaxByte == 1

MaxBody == 2

ByteWidth == 2 ^ 8

\* the plaintext bodies
Plaintexts == UNION { [1..n -> 0..MaxByte] : n \in 0..MaxBody }

RECURSIVE SumBytes(_)
SumBytes(p) == IF p = <<>> THEN 0 ELSE Head(p) + SumBytes(Tail(p))

\* the two magic bytes a gzip stream starts with
GzipMagic == <<31, 139>>

\* the coding of one byte, and its inverse
Deflate(b) == (b + 1) % ByteWidth

Inflate(b) == (b + ByteWidth - 1) % ByteWidth

\* the check byte a gzip stream ends with
Checksum(p) == SumBytes(p) % ByteWidth

\* gzip.NewWriter(w).Write(p) and Close: header, coded bytes, check byte
GzipEncode(p) ==
    GzipMagic \o [i \in 1..Len(p) |-> Deflate(p[i])] \o <<Checksum(p)>>

\* what the body stream delivers: all of the body, or its first rt.cut
\* bytes and then a read error; whole tells that every byte of the body
\* was delivered, which a decoder sees from the end mark of the coded data,
\* and rest is the number of bytes that were not. The read error is that
\* of the connection ("fail"), or, when the request's context ended or the
\* http.Client's Timeout passed while the body was read, the context's
\* error ("canceled", "deadline") or net/http's timeout error, which
\* errors.Is matches with context.DeadlineExceeded ("timeout")
Stream(att, rt) ==
    IF rt.read # "ok"
    THEN [data |-> SubSeq(rt.body, 1, IF rt.cut < Len(rt.body) THEN rt.cut
                                      ELSE Len(rt.body)),
          err  |-> CASE rt.read = "fail" -> <<Layer("read", att)>>
                     [] rt.read = "timeout" ->
                          Wrap(Layer("net/http: timeout while reading body", 0),
                               <<Layer("context.DeadlineExceeded", 0)>>)
                     [] OTHER -> CtxErr(rt.read),
          whole |-> rt.cut >= Len(rt.body),
          rest |-> IF rt.cut < Len(rt.body) THEN Len(rt.body) - rt.cut ELSE 0]
    ELSE [data |-> rt.body, err |-> NoErr, whole |-> TRUE, rest |-> 0]

\* the error of gzip.NewReader(resp.Body), which reads the header
GzipNewReaderErr(s) ==
    IF Len(s.data) >= Len(GzipMagic)
    THEN IF SubSeq(s.data, 1, Len(GzipMagic)) = GzipMagic
         THEN NoErr ELSE <<Layer("gzip: invalid header", 0)>>
    ELSE IF s.err # NoErr THEN s.err
    ELSE IF s.data = <<>> THEN <<Layer("EOF", 0)>>
    ELSE <<Layer("unexpected EOF", 0)>>

\* io.ReadAll(reader) on the body itself
RawReadAll(s) == [data |-> s.data, err |-> s.err]

\* io.ReadAll(reader) on a gzip reader whose header was read: the reader
\* decodes the coded bytes, checks the check byte when the coded data is
\* complete, and only then reads on and meets the end or the read error
GzipReadAll(s) ==
    LET coded == SubSeq(s.data, Len(GzipMagic) + 1, Len(s.data))
        plain(c) == [i \in 1..Len(c) |-> Inflate(c[i])]
    IN  IF coded = <<>>
        THEN [data |-> <<>>,
              err  |-> IF s.err # NoErr THEN s.err
                       ELSE <<Layer("unexpected EOF", 0)>>]
        ELSE IF ~s.whole
        THEN [data |-> plain(coded), err |-> s.err]
        ELSE LET payload == plain(SubSeq(coded, 1, Len(coded) - 1))
             IN  IF Checksum(payload) = coded[Len(coded)]
                 THEN [data |-> payload, err |-> s.err]
                 ELSE [data |-> payload,
                       err  |-> <<Layer("gzip: invalid checksum", 0)>>]

\* strings.ToLower on the header values the requests carry
ToLower(s) ==
    CASE s = "Application/GZIP" -> "application/gzip"
      [] s = "Application/Json" -> "application/json"
      [] OTHER -> s

\* AcceptsGzip selecting the gzip reader for any Accept value
AcceptsGzip_AnyValue(rq) == Len(rq.accept) > 0

\* wrapWithCompressionReader: whether the gzip reader is selected
AcceptsGzip(rq) ==
    \E i \in 1..Len(rq.accept) : ToLower(rq.accept[i]) = AcceptGzipHeader

\* UseGzip with the decompression flag ignored
UseGzip_FlagIgnored(st, rq) == AcceptsGzip(rq)

\* if settings.decompressionEnabled { reader, err = wrapWithCompressionReader(...) }
UseGzip(st, rq) == st.decompressionEnabled /\ AcceptsGzip(rq)

\* what the transport and the body stream do in one attempt of a Do call
RoundTrips(c) ==
    { [send |-> "fail", status |-> 0, body |-> <<>>, read |-> "ok", cut |-> 0,
       close |-> "ok"],
      [send |-> "ok", status |-> StatusOK, body |-> <<1>>, read |-> "ok", cut |-> 0,
       close |-> "ok"],
      [send |-> "ok", status |-> StatusInternalServerError, body |-> <<2>>,
       read |-> "ok", cut |-> 0,
       close |-> "ok"],
      [send |-> "ok", status |-> StatusOK, body |-> <<1>>, read |-> "fail", cut |-> 0,
       close |-> "ok"],
      [send |-> "ok", status |-> StatusOK, body |-> <<1>>, read |-> "stall", cut |-> 0,
       close |-> "ok"] }
    \cup (IF c # "active"
          THEN { [send |-> "ctx", status |-> 0, body |-> <<>>, read |-> "ok", cut |-> 0,
       close |-> "ok"] }
          ELSE {})

\* whether the transport reads the request body in a round trip: "fail" is
\* a failure to connect and "ctx" a context that has ended, both before the
\* request is written
ReadsBody(rt) == rt.send \in {"ok", "hang"}

\* how a round trip rt can go for the request rq, as the RoundTripper of
\* c.client.Transport decides: rt is the round trip as it goes, rq the
\* request after it, avail the body the RoundTripper had to send.
\*  - a request without a body, or a round trip that ends before the
\*    request is written, leaves the request as it is;
\*  - a RoundTripper may answer without reading the body;
\*  - one that reads a whole body sends it, and leaves req.Body at its end
\*    (Consumed);
\*  - one that reads a body an earlier attempt has read finds it at its
\*    end: with GetBody set, net/http's Transport rewinds the body and sends
\*    it again on a reused connection, and fails the round trip on a new
\*    one; without GetBody the length is unknown and the empty rest is sent
AttemptOutcomes(rt, rq) ==
    LET Consumed(q) == [q EXCEPT !.left = <<>>]
    IN
    IF rq.body = <<>> \/ ~ReadsBody(rt)
    THEN { [rt |-> rt, rq |-> rq, avail |-> rq.left] }
    ELSE { [rt |-> rt, rq |-> rq, avail |-> rq.left] }
         \cup (IF rq.left = rq.body
               THEN { [rt |-> rt, rq |-> Consumed(rq), avail |-> rq.body] }
               ELSE IF rq.getBody
               THEN { [rt |-> rt, rq |-> Consumed(rq), avail |-> rq.body],
                      [rt |-> [rt EXCEPT !.send = "short", !.status = 0,
                                          !.body = <<>>],
                       rq |-> Consumed(rq), avail |-> rq.left] }
               ELSE { [rt |-> rt, rq |-> Consumed(rq), avail |-> rq.left] })

\* the error httpClient.Do returns in attempt att
SendErr(att, rt, c) ==
    IF rt.send = "fail" THEN <<Layer("transport", att)>>
    ELSE IF rt.send = "short"
    THEN <<Layer("http: ContentLength with Body length", att)>>
    ELSE IF rt.send = "ctx" THEN Wrap(Layer("url.Error", att), CtxErr(c))
    ELSE IF rt.send = "timeout"
    THEN Wrap(Layer("url.Error", att), <<Layer("context.DeadlineExceeded", 0)>>)
    ELSE NoErr

\* where doRequest returns after httpClient.Do returned a response: at
\* the failure of the decoding reader, at the failure of the read, at its end
ExitPath(att, rt, st, rq) ==
    IF UseGzip(st, rq) /\ GzipNewReaderErr(Stream(att, rt)) # NoErr THEN "wrap"
    ELSE IF (IF UseGzip(st, rq) THEN GzipReadAll(Stream(att, rt))
             ELSE RawReadAll(Stream(att, rt))).err # NoErr THEN "read"
    ELSE "ok"

\* Closers with the body's Close deferred after the decoding reader is built
Closers_AfterWrap(path, gz) ==
    IF path = "wrap" THEN <<>>
    ELSE IF gz THEN <<"gzip.Reader", "Body">>
    ELSE <<"Body", "Body">>

\* the Close calls the deferred functions make when doRequest returns, last
\* deferred first: that of the reader, which is the gzip reader or the body
\* itself, and that of the body
Closers(path, gz) ==
    IF path = "wrap" THEN <<"Body">>
    ELSE IF gz THEN <<"gzip.Reader", "Body">>
    ELSE <<"Body", "Body">>

\* the error the deferred Close calls leave in closeErr, the last to fail
\* standing: that of the body's Close when it fails, and else that of
\* gzip.Reader.Close, which returns the error the inflater stopped at (s is
\* the stream the reader was read from). The inflater ended well when the
\* coded data was complete, whether or not the check byte after it could be
\* read or matched; it stopped at the read error, or at an unexpected end,
\* when the coded data was not complete
CloseErr(rt, closers, s) ==
    LET coded == SubSeq(s.data, Len(GzipMagic) + 1, Len(s.data))
        inflated == s.rest = 1 \/ (s.rest = 0 /\ coded # <<>>)
    IN  IF rt.close = "fail" /\ \E i \in 1..Len(closers) : closers[i] = "Body"
        THEN <<Layer("close", 0)>>
        ELSE IF (\E i \in 1..Len(closers) : closers[i] = "gzip.Reader")
                /\ ~inflated
        THEN GzipReadAll(s).err
        ELSE NoErr

\* the error doRequest returns: its results are unnamed, so the value of the
\* return statement stands and the deferred err = closeErr is lost
ReturnedErr(returned, closeErr) == returned

\* r = new(Response) when httpClient.Do failed: no rawResp, no body
FailedResponse(att) == [att |-> att, raw |-> FALSE, status |-> 0, body |-> <<>>]

\* Materialized dropping the raw response when decoding or reading failed
Materialized_NoRaw(att, rt, path, data) ==
    [att |-> att, raw |-> (path = "ok"),
     status |-> IF path = "ok" THEN rt.status ELSE 0, body |-> data]

\* r after httpClient.Do returned a response: rawResp is kept on every path,
\* body is what was read
Materialized(att, rt, path, data) ==
    [att |-> att, raw |-> TRUE, status |-> rt.status, body |-> data]

\* doRequest after httpClient.Do returned a response: select the reader,
\* read the body, run the deferred Close calls
Materialize(att, rt, st, rq) ==
    LET path == ExitPath(att, rt, st, rq)
        closers == Closers(path, UseGzip(st, rq))
        rd == IF UseGzip(st, rq) THEN GzipReadAll(Stream(att, rt))
              ELSE RawReadAll(Stream(att, rt))
    IN  CASE path = "wrap" ->
               [resp |-> Materialized(att, rt, path, <<>>),
                err  |-> ReturnedErr(
                           Wrap(Layer("unable to wrap response in compression reader", 0),
                                GzipNewReaderErr(Stream(att, rt))),
                           CloseErr(rt, closers, Stream(att, rt))),
                closers |-> closers]
          [] path = "read" ->
               [resp |-> Materialized(att, rt, path, rd.data),
                err  |-> ReturnedErr(
                           Wrap(Layer("failed to read response bytes", 0), rd.err),
                           CloseErr(rt, closers, Stream(att, rt))),
                closers |-> closers]
          [] OTHER ->
               [resp |-> Materialized(att, rt, path, rd.data),
                err  |-> ReturnedErr(NoErr, CloseErr(rt, closers, Stream(att, rt))),
                closers |-> closers]

\* doRequest turning a status of 400 and above into an error
doRequest_StatusErr(att, rt, c, st, rq) ==
    IF SendErr(att, rt, c) # NoErr
    THEN [resp |-> FailedResponse(att), err |-> SendErr(att, rt, c),
          closers |-> <<>>]
    ELSE IF rt.status >= 400
    THEN [resp |-> Materialize(att, rt, st, rq).resp,
          err  |-> <<Layer("ResponseError", rt.status)>>,
          closers |-> Materialize(att, rt, st, rq).closers]
    ELSE Materialize(att, rt, st, rq)

doRequest(att, rt, c, st, rq) ==
    IF SendErr(att, rt, c) # NoErr
    THEN [resp |-> FailedResponse(att), err |-> SendErr(att, rt, c),
          closers |-> <<>>]
    ELSE Materialize(att, rt, st, rq)

----------------------------------------------------------------------------
(* RequestBuilder *)

\* bound of a chain of builder calls
MaxChain == 3

\* the URL strings the setters are given
URLStrings == {"", "test", "https://test.com", "https://test.com/get?a=0"}

\* IsValidURL: url.ParseRequestURI succeeds and the host has two labels
IsValidURL(u) == u \in {"https://test.com", "https://test.com/get?a=0"}

\* a nil *url.URL
NilURL == [nil |-> TRUE, base |-> "", rawQuery |-> <<>>]

\* url.Parse on a valid URL string: the part before '?' and the RawQuery
URLParse(u) ==
    IF u = "https://test.com/get?a=0"
    THEN [nil |-> FALSE, base |-> "https://test.com/get",
          rawQuery |-> <<[k |-> "a", v |-> "0"]>>]
    ELSE [nil |-> FALSE, base |-> u, rawQuery |-> <<>>]

\* fmt.Errorf("invalid URL '%s'", requestURL)
InvalidURLErr(u) ==
    <<Layer(IF u = "" THEN "invalid URL ''" ELSE "invalid URL 'test'", 0)>>

\* parseURL
parseURL(u) ==
    IF ~IsValidURL(u) THEN [url |-> NilURL, err |-> InvalidURLErr(u)]
    ELSE [url |-> URLParse(u), err |-> NoErr]

\* the keys of the query parameters
QueryKeys == {"a", "b"}

\* make(url.Values)
NoValues == [key \in QueryKeys |-> <<>>]

\* the raw query strings SetQueryString is given
QueryStrings == {"a=1", "b=2&a=1", "bar=1&amp;baz=2"}

\* url.ParseQuery: the pairs of the string, or the error of a ';' in it
ParseQuery(q) ==
    CASE q = "a=1" ->
            [pairs |-> <<[k |-> "a", v |-> "1"]>>, err |-> NoErr]
      [] q = "b=2&a=1" ->
            [pairs |-> <<[k |-> "b", v |-> "2"], [k |-> "a", v |-> "1"]>>,
             err |-> NoErr]
      [] OTHER ->
            [pairs |-> <<>>,
             err |-> <<Layer("invalid semicolon separator in query", 0)>>]

\* url.Values.Add for each pair in turn
RECURSIVE AddAll(_, _)
AddAll(values, pairs) ==
    IF pairs = <<>> THEN values
    ELSE AddAll([values EXCEPT ![Head(pairs).k] = Append(@, Head(pairs).v)],
                Tail(pairs))

\* url.Values.Encode: the pairs sorted by key
Encode(values) ==
    [i \in 1..Len(values["a"]) |-> [k |-> "a", v |-> values["a"][i]]]
    \o [i \in 1..Len(values["b"]) |-> [k |-> "b", v |-> values["b"][i]]]

\* strings.ToUpper on the method names the setters are given
ToUpper(m) == IF m = "post" THEN "POST" ELSE m

\* composeMethod
composeMethod(method) == IF method = "" THEN "GET" ELSE ToUpper(method)

\* composeURL: reqURL is a pointer to the builder's URL, and its RawQuery is
\* extended in place
composeURL(reqURL, params) ==
    IF Encode(params) = <<>> THEN reqURL
    ELSE [reqURL EXCEPT !.rawQuery = @ \o Encode(params)]

\* NewRequest(): the RequestBuilder
NewRequestBuilder ==
    [err |-> NoErr, ctx |-> "nil", url |-> NilURL, method |-> "",
     headers |-> <<>>, queryParams |-> NoValues]

\* RequestBuilder.SetURL
SetURL(b, u) == [b EXCEPT !.url = parseURL(u).url, !.err = parseURL(u).err]

\* RequestBuilder.SetMethod
SetMethod(b, m) == [b EXCEPT !.method = m]

\* RequestBuilder.Get, Post, Patch, Put, Options, Head, Connect, Delete, Trace
Shortcut(b, m, u) == SetURL([b EXCEPT !.method = m], u)

\* RequestBuilder.SetContext
SetContext(b, c) == [b EXCEPT !.ctx = c]

\* RequestBuilder.SetHeader for the Accept header
SetHeader(b, value) == [b EXCEPT !.headers = Append(@, value)]

\* RequestBuilder.SetQueryString
SetQueryString(b, q) ==
    IF ParseQuery(q).err # NoErr
    THEN [b EXCEPT !.err = Wrap(Layer("malformed query", 0), ParseQuery(q).err)]
    ELSE [b EXCEPT !.queryParams = AddAll(@, ParseQuery(q).pairs)]

\* RequestBuilder.SetQueryParam
SetQueryParam(b, key, value) ==
    IF key = " " THEN b
    ELSE [b EXCEPT !.queryParams[key] = <<value>>]

\* a nil *http.Request
NilRequest == [nil |-> TRUE, method |-> "", url |-> NilURL, accept |-> <<>>,
               ctx |-> "nil"]

\* RequestBuilder.Build: the request, the error, and the builder after the
\* call, whose URL composeURL has written to
Build(b) ==
    IF b.err # NoErr THEN [req |-> NilRequest, err |-> b.err, rb |-> b]
    ELSE IF b.url.nil
    THEN [req |-> NilRequest, err |-> <<Layer("request url is not set", 0)>>,
          rb |-> b]
    ELSE [req |-> [nil |-> FALSE,
                   method |-> composeMethod(b.method),
                   url |-> composeURL(b.url, b.queryParams),
                   accept |-> b.headers,
                   ctx |-> IF b.ctx = "nil" THEN "Background" ELSE b.ctx],
          err |-> NoErr,
          rb  |-> [b EXCEPT !.url = composeURL(b.url, b.queryParams)]]

\* the calls of a chain: each setter with its argument, or Build
BuilderCalls ==
    { [op |-> "SetURL", u |-> u] : u \in URLStrings }
    \cup { [op |-> "Shortcut", m |-> m, u |-> u] :
             m \in {"GET", "POST"}, u \in URLStrings }
    \cup { [op |-> "SetMethod", m |-> m] : m \in {"", "post"} }
    \cup { [op |-> "SetContext", c |-> c] : c \in {"nil", "WithTimeout"} }
    \cup { [op |-> "SetHeader", value |-> AcceptGzipHeader] }
    \cup { [op |-> "SetQueryString", q |-> q] : q \in QueryStrings }
    \cup { [op |-> "SetQueryParam", key |-> key, value |-> "3"] :
             key \in QueryKeys \cup {" "} }

\* the builder after one setter call
ApplySetter(b, c) ==
    CASE c.op = "SetURL" -> SetURL(b, c.u)
      [] c.op = "Shortcut" -> Shortcut(b, c.m, c.u)
      [] c.op = "SetMethod" -> SetMethod(b, c.m)
      [] c.op = "SetContext" -> SetContext(b, c.c)
      [] c.op = "SetHeader" -> SetHeader(b, c.value)
      [] c.op = "SetQueryString" -> SetQueryString(b, c.q)
      [] c.op = "SetQueryParam" -> SetQueryParam(b, c.key, c.value)
      [] OTHER -> b

\* the error one setter call meets, whatever the builder holds
SetterErr(c) ==
    CASE c.op \in {"SetURL", "Shortcut"} -> parseURL(c.u).err
      [] c.op = "SetQueryString" ->
            IF ParseQuery(c.q).err # NoErr
            THEN Wrap(Layer("malformed query", 0), ParseQuery(c.q).err)
            ELSE NoErr
      [] OTHER -> NoErr

----------------------------------------------------------------------------
(* Client.Do *)

\* the goroutines that call Do on one client at the same time
Callers == {1, 2}

\* the locals of a Do call that has not been entered: settings, resp, err,
\* retryTime, retryCount and the loop variable r, with the call's options,
\* its position and what it has done and returned
IdleCall ==
    [pc |-> "idle", opts |-> <<>>, settings |-> newDefaultSettings, r |-> 0,
     retryCount |-> 0, retryTime |-> 0, resp |-> NilResp, err |-> NoErr,
     takes |-> 0, attempts |-> 0, postCalls |-> 0, via |-> "none",
     ret |-> [resp |-> NilResp, err |-> NoErr]]

Init ==
    /\ \E cfg \in ClientConfigs :
          /\ c_settings = NewWithClient(cfg.opts)
          /\ httpClient = NewWithClientHTTP(cfg.client, cfg.opts)
    /\ req \in Requests
    /\ callOpts = <<>>
    /\ takenOn = "none"
    /\ call = [fn |-> "none"]
    /\ result = [fn |-> "none"]
    /\ rb = NewRequestBuilder
    /\ calls = [i \in Callers |-> IdleCall]
    /\ hookArgs = [called |-> FALSE]
    /\ chain = <<>>
    /\ settings = newDefaultSettings
    /\ pc = "idle"
    /\ ctx = "active"
    /\ timer = "off"
    /\ timerDur = 0
    /\ r = 0
    /\ retryCount = 0
    /\ retryTime = 0
    /\ resp = NilResp
    /\ err = NoErr
    /\ mustRetry = FALSE
    /\ ret = [resp |-> NilResp, err |-> NoErr]
    /\ takes = 0
    /\ preCalls = 0
    /\ attempts = 0
    /\ postCalls = 0
    /\ condCalls = 0
    /\ waits = 0
    /\ bothReady = FALSE
    /\ canceledInWait = FALSE
    /\ allFailed = TRUE

\* the transports the caller hands to SetTransport
CallerTransports == {"swapped"}

\* c.SetTransport(transport), called at any time: from a hook or the
\* predicate of a running Do, between calls, or from another goroutine
\*   c.client.Transport = transport
SetTransport(transport) ==
    /\ httpClient' = [httpClient EXCEPT !.Transport = transport]
    /\ UNCHANGED <<c_settings, settings, pc, ctx, timer, timerDur, r, retryCount,
                   retryTime, resp, err, mustRetry, ret, takes, preCalls, attempts,
                   postCalls, condCalls, waits, bothReady, canceledInWait, allFailed,
                   req, callOpts, takenOn, call, result, rb, chain, calls, hookArgs>>

\* ResolveSettings applying the call's options onto the client's settings
ResolveSettings_Merge(cs, opts) ==
    IF Len(opts) > 0 THEN ApplyOptions(opts, cs) ELSE cs

\* settings := c.settings; if len(opts) > 0 { fresh defaults + opts }
ResolveSettings(cs, opts) ==
    IF Len(opts) > 0 THEN ApplyOptions(opts, newDefaultSettings) ELSE cs

\* StandingSettings with Do storing the call's settings in the client
StandingSettings_Stored(cs, st) == st

\* c.settings after Do has resolved the settings st of a call: settings is
\* a copy of the struct, and the options are applied to the copy
StandingSettings(cs, st) == cs

DoStart(opts) ==
    /\ pc = "idle"
    /\ settings' = ResolveSettings(c_settings, opts)
    /\ c_settings' = StandingSettings(c_settings, ResolveSettings(c_settings, opts))
    /\ callOpts' = opts
    /\ pc' = "take"
    /\ UNCHANGED <<ctx, timer, timerDur, r, retryCount, retryTime,
                   resp, err, mustRetry, ret, takes, preCalls, attempts,
                   postCalls, condCalls, waits, bothReady, canceledInWait, allFailed,
                   httpClient, req, takenOn, call, result, rb, chain, calls, hookArgs>>

\* TakeCount with the nil check inverted: the limiter is never acquired
TakeCount_Inverted(st, n) == IF st.rateLimiter = "nil" THEN n + 1 ELSE n

\* if settings.rateLimiter != nil { settings.rateLimiter.Take() }
TakeCount(st, n) == IF st.rateLimiter # "nil" THEN n + 1 ELSE n

\* whether a call of Take may block: the default unlimitedLimiter returns at
\* once, a caller's limiter returns when it grants the call
MayBlock(limiter) == IF limiter \in {"custom", "client"} THEN BOOLEAN ELSE {FALSE}

TakeLimiter ==
    /\ pc = "take"
    /\ takes' = TakeCount(settings, takes)
    /\ takenOn' = IF TakeCount(settings, takes) > takes
                  THEN settings.rateLimiter ELSE takenOn
    /\ \E blocks \in MayBlock(settings.rateLimiter) :
          pc' = IF blocks THEN "taking" ELSE "pre"
    /\ UNCHANGED <<c_settings, settings, ctx, timer, timerDur, r, retryCount,
                   retryTime, resp, err, mustRetry, ret, preCalls, attempts,
                   postCalls, condCalls, waits, bothReady, canceledInWait, allFailed,
                   httpClient, req, callOpts, call, result, rb, chain, calls, hookArgs>>

\* the limiter grants the call: Take returns. Take has no context argument,
\* so nothing but the limiter ends it
TakeReturn ==
    /\ pc = "taking"
    /\ pc' = "pre"
    /\ UNCHANGED <<c_settings, settings, ctx, timer, timerDur, r, retryCount,
                   retryTime, resp, err, mustRetry, ret, takes, preCalls, attempts,
                   postCalls, condCalls, waits, bothReady, canceledInWait, allFailed,
                   httpClient, req, callOpts, takenOn, call, result, rb, chain, calls, hookArgs>>

\* NormalizeRetryCount without the clamp to one attempt
NormalizeRetryCount_NoClamp(n) == n

\* if retryCount < 1 { retryCount = 1 }
NormalizeRetryCount(n) == IF n < 1 THEN 1 ELSE n

\* PreHookReturn wrapping the hook's error instead of returning it as it is
PreHookReturn_Wrapped(e) ==
    [resp |-> NilResp, err |-> Wrap(Layer("pre-request hook failed", 0), e)]

\* what Do returns when the pre-request hook fails
PreHookReturn(e) == [resp |-> NilResp, err |-> e]

\* PreHookCalls with the hook never called
PreHookCalls_Skipped(n) == n

\* the calls of settings.preRequestHookFn after Do has passed the hook
PreHookCalls(n) == n + 1

PreHook ==
    /\ pc = "pre"
    /\ preCalls' = PreHookCalls(preCalls)
    /\ IF PreRequestHookFn(settings.preRequestHookFn) # NoErr
       THEN /\ ret' = PreHookReturn(PreRequestHookFn(settings.preRequestHookFn))
            /\ pc' = "done"
            /\ UNCHANGED <<r, retryCount, retryTime>>
       ELSE /\ retryTime' = settings.retryDelay
            /\ retryCount' = NormalizeRetryCount(settings.retryCount)
            /\ r' = 0
            /\ pc' = "loop"
            /\ UNCHANGED ret
    /\ UNCHANGED <<c_settings, settings, ctx, timer, timerDur, resp, err,
                   mustRetry, takes, attempts, postCalls, condCalls, waits,
                   bothReady, canceledInWait, allFailed,
                   httpClient, req, callOpts, takenOn, call, result, rb, chain, calls, hookArgs>>

\* the transport an attempt is sent through: doRequest(c.client, req, settings)
\* calls httpClient.Do(req), which uses the Transport field of c.client;
\* settings.transport is not read
SentThrough(hc, st) == hc.Transport

\* LoopContinues with an inclusive bound: r <= retryCount
LoopContinues_Inclusive(i, n) == i <= n

\* the loop condition r < retryCount
LoopContinues(i, n) == i < n

\* doRequest is entered and httpClient.Do(req) sends the request: Do waits
\* there for the transport, which will answer ("wait") or stay silent
\* ("hang"); nothing of the answer is known yet
Attempt(kind) ==
    /\ pc = "loop"
    /\ LoopContinues(r, retryCount)
    /\ attempts' = attempts + 1
    /\ call' = [fn |-> "doRequest",
                rt |-> [send |-> kind, status |-> 0, body |-> <<>>,
                        read |-> "ok", cut |-> 0, close |-> "ok"],
                st |-> settings, rq |-> req,
                via |-> SentThrough(httpClient, settings),
                avail |-> req.left]
    /\ hookArgs' = [called |-> FALSE]
    /\ pc' = "sending"
    /\ UNCHANGED <<c_settings, settings, ctx, timer, timerDur, r, retryCount,
                   retryTime, resp, err, mustRetry, ret, takes, preCalls,
                   postCalls, condCalls, waits, bothReady, canceledInWait,
                   allFailed, result,
                   httpClient, req, callOpts, takenOn, rb, chain, calls>>

\* the transport answers, or fails, with the round trip rt: httpClient.Do
\* returns. With an error doRequest returns to Do at once; with a response
\* doRequest goes on to read the body, of which nothing has been read
AttemptReturn(rt) ==
    /\ pc = "sending"
    /\ call.rt.send = "wait"
    /\ \E o \in AttemptOutcomes(rt, req) :
          /\ IF SendErr(attempts, o.rt, ctx) # NoErr
             THEN /\ result' = doRequest(attempts, o.rt, ctx, settings, req)
                  /\ resp' = doRequest(attempts, o.rt, ctx, settings, req).resp
                  /\ err' = doRequest(attempts, o.rt, ctx, settings, req).err
                  /\ allFailed' = allFailed
                  /\ pc' = "post"
             ELSE /\ pc' = "reading"
                  /\ UNCHANGED <<result, resp, err, allFailed>>
          /\ call' = [call EXCEPT !.rt = o.rt, !.avail = o.avail]
          /\ req' = o.rq
    /\ UNCHANGED <<c_settings, settings, ctx, timer, timerDur, r, retryCount,
                   retryTime, mustRetry, ret, takes, preCalls, attempts,
                   postCalls, condCalls, waits, bothReady, canceledInWait,
                   httpClient, callOpts, takenOn, rb, chain, calls, hookArgs>>

\* what releases an attempt whose transport does not answer: the end of
\* the request's context, or the http.Client's own Timeout when it is set
Releases(c, hc) ==
    (IF c # "active" THEN {"ctx"} ELSE {}) \cup
    (IF hc.Timeout > 0 THEN {"timeout"} ELSE {})

\* httpClient.Do returns from a transport that has not answered; the
\* transport may have read the request's body by then
SendReturn(cause) ==
    /\ pc = "sending"
    /\ cause \in Releases(ctx, httpClient)
    /\ LET rt == [send |-> cause, status |-> 0, body |-> <<>>, read |-> "ok", cut |-> 0,
       close |-> "ok"]
       IN  /\ resp' = doRequest(attempts, rt, ctx, settings, req).resp
           /\ err' = doRequest(attempts, rt, ctx, settings, req).err
           /\ result' = doRequest(attempts, rt, ctx, settings, req)
           /\ \E o \in { x \in AttemptOutcomes([rt EXCEPT !.send = "hang"], req) :
                           x.rt.send = "hang" } :
                 /\ call' = [call EXCEPT !.rt = rt, !.avail = o.avail]
                 /\ req' = o.rq
    /\ allFailed' = allFailed
    /\ pc' = "post"
    /\ UNCHANGED <<c_settings, settings, ctx, timer, timerDur, r, retryCount,
                   retryTime, mustRetry, ret, takes, preCalls, attempts,
                   postCalls, condCalls, waits, bothReady, canceledInWait,
                   httpClient, callOpts, takenOn, rb, chain, calls, hookArgs>>

\* gzip.NewReader and io.ReadAll return and doRequest returns to Do: the
\* body was read as the round trip delivers it ("read", which a stalled
\* body never allows), or the read was broken off by the end of the
\* request's context or by the http.Client's Timeout
ReadReturn(how) ==
    /\ pc = "reading"
    /\ how \in {"read"} \cup Releases(ctx, httpClient)
    /\ how = "read" => call.rt.read # "stall"
    /\ LET rt == IF how = "read" THEN call.rt
                 ELSE [call.rt EXCEPT
                          !.read = IF how = "ctx" THEN ctx ELSE "timeout"]
       IN  /\ result' = doRequest(attempts, rt, ctx, settings, req)
           /\ resp' = doRequest(attempts, rt, ctx, settings, req).resp
           /\ err' = doRequest(attempts, rt, ctx, settings, req).err
           /\ allFailed' = (allFailed /\
                   doRequest(attempts, rt, ctx, settings, req).err # NoErr)
           /\ call' = [call EXCEPT !.rt = rt]
    /\ pc' = "post"
    /\ UNCHANGED <<c_settings, settings, ctx, timer, timerDur, r, retryCount,
                   retryTime, mustRetry, ret, takes, preCalls, attempts,
                   postCalls, condCalls, waits, bothReady, canceledInWait,
                   httpClient, req, callOpts, takenOn, rb, chain, calls,
                   hookArgs>>

LoopExit ==
    /\ pc = "loop"
    /\ ~LoopContinues(r, retryCount)
    /\ pc' = "exit"
    /\ UNCHANGED <<c_settings, settings, ctx, timer, timerDur, r, retryCount,
                   retryTime, resp, err, mustRetry, ret, takes, preCalls,
                   attempts, postCalls, condCalls, waits, bothReady,
                   canceledInWait, allFailed,
                   httpClient, req, callOpts, takenOn, call, result, rb, chain, calls, hookArgs>>

\* PostHookCalls with the hook skipped for an attempt that failed
PostHookCalls_OnSuccess(n, e) == IF e = NoErr THEN n + 1 ELSE n

\* the calls of settings.postRequestHookFn after one more attempt: the hook
\* is called whatever pair the attempt returned
PostHookCalls(n, e) == n + 1

\* the arguments of settings.postRequestHookFn(req, resp): the request and
\* the response of the attempt; a PostRequestHookFn has no error parameter
\* and the attempt's error e is not handed over
PostHookArgs(rq, rp, e) == [called |-> TRUE, req |-> rq, resp |-> rp]

PostHook ==
    /\ pc = "post"
    /\ postCalls' = PostHookCalls(postCalls, err)
    /\ hookArgs' = PostHookArgs(req, resp, err)
    /\ pc' = "cond"
    /\ UNCHANGED <<c_settings, settings, ctx, timer, timerDur, r, retryCount,
                   retryTime, resp, err, mustRetry, ret, takes, preCalls,
                   attempts, condCalls, waits, bothReady, canceledInWait, allFailed,
                   httpClient, req, callOpts, takenOn, call, result, rb, chain, calls>>

\* mustRetry := ...; if !mustRetry { break }; the second if is never taken;
\* otherwise time.After(settings.retryDelay) is armed for the select
DelayArmed(st, rtime) == st.retryDelay

\* AfterCondition entering the delay wait whatever the predicate answered
AfterCondition_AlwaysWait(must) == "select"

\* if !mustRetry { break }: where Do goes after the predicate's answer
AfterCondition(must) == IF must THEN "select" ELSE "exit"

RetryCondition ==
    /\ pc = "cond"
    /\ condCalls' = condCalls + 1
    /\ mustRetry' = RetryConditionFn(settings.retryConditionFn, resp, err)
    /\ pc' = AfterCondition(mustRetry')
    /\ IF pc' = "exit"
       THEN UNCHANGED <<timer, timerDur, waits>>
       ELSE /\ timer' = "armed"
            /\ timerDur' = DelayArmed(settings, retryTime)
            /\ waits' = waits + 1
    /\ bothReady' = FALSE
    /\ UNCHANGED <<c_settings, settings, ctx, r, retryCount, retryTime, resp,
                   err, ret, takes, preCalls, attempts, postCalls,
                   canceledInWait, allFailed,
                   httpClient, req, callOpts, takenOn, call, result, rb, chain, calls, hookArgs>>

\* the cases of the select that can proceed
ReadyCases(t, c) ==
    (IF t = "fired" THEN {"timer"} ELSE {}) \cup
    (IF c # "active" THEN {"ctx"} ELSE {})

\* the cases the select may choose when it is evaluated
SelectChoice(ready) == ready

SelectPoll ==
    /\ pc = "select"
    /\ IF ReadyCases(timer, ctx) = {}
       THEN /\ pc' = "parked"
            /\ bothReady' = FALSE
       ELSE /\ \E c \in SelectChoice(ReadyCases(timer, ctx)) :
                  pc' = IF c = "timer" THEN "case_timer" ELSE "case_ctx"
            /\ bothReady' = (ReadyCases(timer, ctx) = {"timer", "ctx"})
    /\ UNCHANGED <<c_settings, settings, ctx, timer, timerDur, r, retryCount,
                   retryTime, resp, err, mustRetry, ret, takes, preCalls,
                   attempts, postCalls, condCalls, waits, canceledInWait, allFailed,
                   httpClient, req, callOpts, takenOn, call, result, rb, chain, calls, hookArgs>>

\* the runtime timer of time.After sends on its channel
TimerFire ==
    /\ timer = "armed"
    /\ timer' = "fired"
    /\ pc' = IF pc = "parked" THEN "case_timer" ELSE pc
    /\ UNCHANGED <<c_settings, settings, ctx, timerDur, r, retryCount,
                   retryTime, resp, err, mustRetry, ret, takes, preCalls,
                   attempts, postCalls, condCalls, waits, bothReady,
                   canceledInWait, allFailed,
                   httpClient, req, callOpts, takenOn, call, result, rb, chain, calls, hookArgs>>

\* the caller cancels the context, or its deadline passes
CtxDone(kind) ==
    /\ req.ctx = "WithTimeout"
    /\ ctx = "active"
    /\ pc # "done"
    /\ ctx' = kind
    /\ pc' = IF pc = "parked" THEN "case_ctx" ELSE pc
    /\ canceledInWait' = (pc = "parked")
    /\ UNCHANGED <<c_settings, settings, timer, timerDur, r, retryCount,
                   retryTime, resp, err, mustRetry, ret, takes, preCalls,
                   attempts, postCalls, condCalls, waits, bothReady, allFailed,
                   httpClient, req, callOpts, takenOn, call, result, rb, chain, calls, hookArgs>>

\* NextRound leaving the loop variable as it is
NextRound_Stay(i) == i

\* the post statement r++ of the loop
NextRound(i) == i + 1

\* case <-time.After(settings.retryDelay): retryTime += settings.retryDelayDelta
CaseTimer ==
    /\ pc = "case_timer"
    /\ retryTime' = retryTime + settings.retryDelayDelta
    /\ r' = NextRound(r)
    /\ timer' = "off"
    /\ pc' = "loop"
    /\ UNCHANGED <<c_settings, settings, ctx, timerDur, retryCount, resp, err,
                   mustRetry, ret, takes, preCalls, attempts, postCalls,
                   condCalls, waits, bothReady, canceledInWait, allFailed,
                   httpClient, req, callOpts, takenOn, call, result, rb, chain, calls, hookArgs>>

\* CtxReturn reporting the cancellation as an exhaustion error
CtxReturn_Exhausted(c) ==
    [resp |-> NilResp,
     err  |-> Wrap(Layer("failed to send request after attempt(s)", 0), CtxErr(c))]

\* case <-ctx.Done(): return nil, ctx.Err()
CtxReturn(c) == [resp |-> NilResp, err |-> CtxErr(c)]

CaseCtx ==
    /\ pc = "case_ctx"
    /\ ret' = CtxReturn(ctx)
    /\ timer' = "off"
    /\ pc' = "done"
    /\ UNCHANGED <<c_settings, settings, ctx, timerDur, r, retryCount,
                   retryTime, resp, err, mustRetry, takes, preCalls, attempts,
                   postCalls, condCalls, waits, bothReady, canceledInWait, allFailed,
                   httpClient, req, callOpts, takenOn, call, result, rb, chain, calls, hookArgs>>

\* ExhaustionErr formatting the cause with %v: the cause is not wrapped
ExhaustionErr_NoCause(st, e) ==
    <<Layer("failed to send request after attempt(s)", st.retryCount)>>

\* fmt.Errorf("failed to send request after %d attempt(s): %w", settings.retryCount, err)
ExhaustionErr(st, e) == Wrap(Layer("failed to send request after attempt(s)", st.retryCount), e)

\* if err != nil { return nil, fmt.Errorf(...) }; return resp, nil
FinalReturn(st, rp, e) ==
    IF e # NoErr THEN [resp |-> NilResp, err |-> ExhaustionErr(st, e)]
    ELSE [resp |-> rp, err |-> NoErr]

Finish ==
    /\ pc = "exit"
    /\ ret' = FinalReturn(settings, resp, err)
    /\ pc' = "done"
    /\ UNCHANGED <<c_settings, settings, ctx, timer, timerDur, r, retryCount,
                   retryTime, resp, err, mustRetry, takes, preCalls, attempts,
                   postCalls, condCalls, waits, bothReady, canceledInWait, allFailed,
                   httpClient, req, callOpts, takenOn, call, result, rb, chain, calls, hookArgs>>

\* the steps of a Do call, of the timer and of the context
DoNext ==
    \/ \E o \in CallOptLists : DoStart(o)
    \/ TakeLimiter
    \/ TakeReturn
    \/ PreHook
    \/ \E kind \in {"wait", "hang"} : Attempt(kind)
    \/ \E rt \in RoundTrips(ctx) : AttemptReturn(rt)
    \/ \E cause \in {"ctx", "timeout"} : SendReturn(cause)
    \/ \E how \in {"read", "ctx", "timeout"} : ReadReturn(how)
    \/ LoopExit
    \/ PostHook
    \/ RetryCondition
    \/ SelectPoll
    \/ TimerFire
    \/ \E k \in {"canceled", "deadline"} : CtxDone(k)
    \/ CaseTimer
    \/ CaseCtx
    \/ Finish

Next ==
    \/ \E t \in CallerTransports : SetTransport(t)
    \/ DoNext

Spec == Init /\ [][Next]_vars

----------------------------------------------------------------------------
(* Single calls of doRequest, the Response accessors and ResponseError.Is *)

\* the variables of Client.Do, which a single call of a function leaves alone
doVars == <<c_settings, settings, ctx, timer, timerDur, r, retryCount,
            retryTime, resp, err, mustRetry, ret, takes, preCalls, attempts,
            postCalls, condCalls, waits, bothReady, canceledInWait, allFailed,
            httpClient, req, callOpts, takenOn, calls, hookArgs>>

\* the status codes the test server answers with
Statuses == {StatusOK, StatusRequestTimeout, StatusInternalServerError}

\* a gzip stream whose check byte was altered on the way
Tamper(s) == [s EXCEPT ![Len(s)] = (s[Len(s)] + 1) % ByteWidth]

\* the bodies a server sends: plain, gzip-encoded, gzip-encoded and damaged
Bodies ==
    Plaintexts \cup { GzipEncode(p) : p \in Plaintexts }
               \cup { Tamper(GzipEncode(p)) : p \in Plaintexts }

\* the outcomes of one round trip: the transport fails, or answers with a
\* status and a body that is read to its end or to a read error after cut
\* bytes
CleanRoundTrips ==
    { [send |-> "fail", status |-> 0, body |-> <<>>, read |-> "ok", cut |-> 0,
       close |-> "ok"] }
    \cup { [send |-> "ok", status |-> s, body |-> b, read |-> "ok", cut |-> 0,
       close |-> "ok"] :
             s \in Statuses, b \in Bodies }
    \cup UNION { { [send |-> "ok", status |-> StatusOK, body |-> b,
                     read |-> "fail", cut |-> n, close |-> "ok"] : n \in 0..Len(b) } :
                  b \in Bodies }

\* those outcomes, and the same with a body whose Close fails
AllRoundTrips ==
    CleanRoundTrips
    \cup { [rt EXCEPT !.close = "fail"] : rt \in { x \in CleanRoundTrips : x.send = "ok" } }

\* the settings doRequest is called with
FlagSettings ==
    { ApplyOptions(<< WithAutoDecompression(b) >>, newDefaultSettings) :
        b \in BOOLEAN }

\* the Accept headers of the requests
AcceptLists ==
    { <<>>, << AcceptGzipHeader >>, << "Application/GZIP" >>,
      << "Application/Json" >>, << "Application/Json", AcceptGzipHeader >> }

\* the responses the accessors are called on: nil, zero-initialized, and
\* those doRequest returns
Responses ==
    { NilResp, ZeroResp }
    \cup { [att |-> 1, raw |-> TRUE, status |-> s, body |-> b] :
             s \in Statuses, b \in Plaintexts }

\* the ResponseError values, and the targets Is is called with
ResponseErrors ==
    { ResponseError(m, c) : m \in {"", "not found"}, c \in Statuses }

Targets ==
    { NoErr, <<Layer("transport", 1)>>, AbortErr,
      Wrap(Layer("url.Error", 1), CtxErr("canceled")) }
    \cup { <<b>> : b \in ResponseErrors }
    \cup { Wrap(Layer("failed to send request after attempt(s)", 1), <<b>>) :
             b \in ResponseErrors }

PureInit ==
    /\ c_settings = NewWithClient(<<>>)
    /\ httpClient = NewWithClientHTTP(ZeroHTTPClient, <<>>)
    /\ req = NewRequest(<<>>, "Background")
    /\ callOpts = <<>>
    /\ takenOn = "none"
    /\ call = [fn |-> "none"]
    /\ result = [fn |-> "none"]
    /\ rb = NewRequestBuilder
    /\ calls = [i \in Callers |-> IdleCall]
    /\ hookArgs = [called |-> FALSE]
    /\ chain = <<>>
    /\ settings = newDefaultSettings
    /\ pc = "pure"
    /\ ctx = "active"
    /\ timer = "off"
    /\ timerDur = 0
    /\ r = 0
    /\ retryCount = 0
    /\ retryTime = 0
    /\ resp = NilResp
    /\ err = NoErr
    /\ mustRetry = FALSE
    /\ ret = [resp |-> NilResp, err |-> NoErr]
    /\ takes = 0
    /\ preCalls = 0
    /\ attempts = 0
    /\ postCalls = 0
    /\ condCalls = 0
    /\ waits = 0
    /\ bothReady = FALSE
    /\ canceledInWait = FALSE
    /\ allFailed = TRUE

\* one call of doRequest(httpClient, req, settings)
CallDoRequest(rt, st, accept) ==
    /\ pc = "pure"
    /\ call' = [fn |-> "doRequest", rt |-> rt, st |-> st,
                rq |-> NewRequest(accept, "Background")]
    /\ result' = doRequest(1, rt, "active", st, NewRequest(accept, "Background"))
    /\ pc' = "returned"
    /\ UNCHANGED <<doVars, rb, chain>>

\* one call of a Response accessor
CallAccessor(name, rp) ==
    /\ pc = "pure"
    /\ call' = [fn |-> "accessor", name |-> name, rp |-> rp]
    /\ result' = Accessor(name, rp)
    /\ pc' = "returned"
    /\ UNCHANGED <<doVars, rb, chain>>

\* one call of e.Is(target)
CallIs(e, target) ==
    /\ pc = "pure"
    /\ call' = [fn |-> "Is", e |-> e, target |-> target]
    /\ result' = Returns([bool |-> ResponseErrorIs(e, target)])
    /\ pc' = "returned"
    /\ UNCHANGED <<doVars, rb, chain>>

\* the http.Client values a caller hands to NewWithClient: the zero
\* client, and clients with a Transport and a Jar of their own
CallerClients ==
    { [Transport |-> t, Jar |-> j, Timeout |-> 0] :
        t \in {"nil", "own"}, j \in {"nil", "ownJar"} }

\* the option lists NewWithClient is called with
ConstructorOptLists ==
    { <<>>, << WithRetryCount(MaxRetry) >>, << WithTransport("option") >>,
      << WithCookieJar("optionJar") >>, << WithTransport("nil") >>,
      << WithTransport("option"), WithCookieJar("optionJar") >> }

\* c := NewWithClient(hc, opts...): the client c.Client() returns
CallNewWithClient(hc, opts) ==
    /\ pc = "pure"
    /\ call' = [fn |-> "NewWithClient", hc |-> hc, opts |-> opts]
    /\ result' = Returns([client |-> NewWithClientHTTP(hc, opts),
                          settings |-> NewWithClient(opts)])
    /\ pc' = "returned"
    /\ UNCHANGED <<doVars, rb, chain>>

\* the option lists settings are built from: one or two of the public
\* options, called with a nil argument or with a value
NilOptLists ==
    LET NilOptions ==
          { WithRateLimiter("nil"), WithPreRequestHook("nil"),
            WithPostRequestHook("nil"), WithRetryCondition("nil"),
            WithTransport("nil"), WithCheckRedirect("nil"),
            WithRateLimiter("custom"), WithRetryCondition("onError"),
            WithCheckRedirect("custom") }
    IN  { <<o>> : o \in NilOptions }
        \cup { <<o, p>> : o \in NilOptions, p \in NilOptions }

\* settings := newDefaultSettings(); for _, opt := range opts { opt(&settings) }
CallOptions(opts) ==
    /\ pc = "pure"
    /\ call' = [fn |-> "options", opts |-> opts]
    /\ result' = Returns([settings |-> ApplyOptions(opts, newDefaultSettings)])
    /\ pc' = "returned"
    /\ UNCHANGED <<doVars, rb, chain>>

\* the caller takes the result and is free to call again
CallDone ==
    /\ pc = "returned"
    /\ pc' = "pure"
    /\ call' = [fn |-> "none"]
    /\ result' = [fn |-> "none"]
    /\ UNCHANGED <<doVars, rb, chain>>

PureNext ==
    \/ \E t \in CallerTransports : SetTransport(t)
    \/ \E rt \in AllRoundTrips, st \in FlagSettings, a \in AcceptLists :
          CallDoRequest(rt, st, a)
    \/ \E name \in Accessors, rp \in Responses : CallAccessor(name, rp)
    \/ \E e \in ResponseErrors, target \in Targets : CallIs(e, target)
    \/ \E o \in NilOptLists : CallOptions(o)
    \/ \E hc \in CallerClients, o \in ConstructorOptLists : CallNewWithClient(hc, o)
    \/ CallDone

PureSpec == PureInit /\ [][PureNext]_vars

----------------------------------------------------------------------------
(* Concurrent Do calls on one client *)

\* the clients the concurrent calls are made on
ConcOptLists ==
    { << WithRetryCount(n), WithRetryCondition(p), WithRateLimiter("client") >> :
        n \in 1..MaxRetry, p \in {"default", "onError"} }

\* what the transport answers to an attempt of a concurrent call; a
\* transport that does not answer leaves the caller in its round trip
ConcRoundTrips == { rt \in RoundTrips("active") : rt.read = "ok" }

ConcInit ==
    /\ \E o \in ConcOptLists :
          /\ c_settings = NewWithClient(o)
          /\ httpClient = NewWithClientHTTP(ZeroHTTPClient, o)
    /\ req = NewRequest(<<>>, "Background")
    /\ callOpts = <<>>
    /\ takenOn = "none"
    /\ call = [fn |-> "none"]
    /\ result = [fn |-> "none"]
    /\ rb = NewRequestBuilder
    /\ calls = [i \in Callers |-> IdleCall]
    /\ hookArgs = [called |-> FALSE]
    /\ chain = <<>>
    /\ settings = newDefaultSettings
    /\ pc = "concurrent"
    /\ ctx = "active"
    /\ timer = "off"
    /\ timerDur = 0
    /\ r = 0
    /\ retryCount = 0
    /\ retryTime = 0
    /\ resp = NilResp
    /\ err = NoErr
    /\ mustRetry = FALSE
    /\ ret = [resp |-> NilResp, err |-> NoErr]
    /\ takes = 0
    /\ preCalls = 0
    /\ attempts = 0
    /\ postCalls = 0
    /\ condCalls = 0
    /\ waits = 0
    /\ bothReady = FALSE
    /\ canceledInWait = FALSE
    /\ allFailed = TRUE

\* the variables a step of a concurrent call leaves alone
concFrame == <<settings, pc, ctx, timer, timerDur, r, retryCount, retryTime,
               resp, err, mustRetry, ret, takes, preCalls, attempts, postCalls,
               condCalls, waits, bothReady, canceledInWait, allFailed,
               httpClient, req, callOpts, takenOn, call, result, rb, chain,
               hookArgs>>

\* caller i enters Do: settings := c.settings, or fresh defaults + opts
ConcDoStart(i, opts) ==
    /\ calls[i].pc = "idle"
    /\ calls' = [calls EXCEPT ![i].pc = "take",
                              ![i].opts = opts,
                              ![i].settings = ResolveSettings(c_settings, opts)]
    /\ c_settings' = StandingSettings(c_settings, ResolveSettings(c_settings, opts))
    /\ UNCHANGED concFrame

\* caller i calls settings.rateLimiter.Take(), which returns at once or blocks
ConcTake(i) ==
    /\ calls[i].pc = "take"
    /\ \E blocks \in MayBlock(calls[i].settings.rateLimiter) :
          calls' = [calls EXCEPT ![i].takes = TakeCount(calls[i].settings, @),
                                 ![i].pc = IF blocks THEN "taking" ELSE "pre"]
    /\ UNCHANGED <<c_settings, concFrame>>

\* the limiter grants caller i: Take returns
ConcTakeReturn(i) ==
    /\ calls[i].pc = "taking"
    /\ calls' = [calls EXCEPT ![i].pc = "pre"]
    /\ UNCHANGED <<c_settings, concFrame>>

\* caller i: the pre-request hook, then the locals of the loop
ConcPreHook(i) ==
    /\ calls[i].pc = "pre"
    /\ LET st == calls[i].settings
           hookErr == PreRequestHookFn(st.preRequestHookFn)
       IN  calls' = IF hookErr # NoErr
                    THEN [calls EXCEPT ![i].ret = PreHookReturn(hookErr),
                                       ![i].pc = "done"]
                    ELSE [calls EXCEPT ![i].retryTime = st.retryDelay,
                                       ![i].retryCount = NormalizeRetryCount(st.retryCount),
                                       ![i].r = 0,
                                       ![i].pc = "loop"]
    /\ UNCHANGED <<c_settings, concFrame>>

\* caller i enters doRequest: httpClient.Do(req) sends the request
ConcSend(i) ==
    /\ calls[i].pc = "loop"
    /\ LoopContinues(calls[i].r, calls[i].retryCount)
    /\ calls' = [calls EXCEPT ![i].attempts = @ + 1,
                              ![i].via = SentThrough(httpClient, calls[i].settings),
                              ![i].pc = "sending"]
    /\ UNCHANGED <<c_settings, concFrame>>

\* the transport fails caller i: httpClient.Do returns an error and
\* doRequest returns
ConcReceive(i, rt) ==
    /\ calls[i].pc = "sending"
    /\ rt.send # "ok"
    /\ LET out == doRequest(calls[i].attempts, rt, ctx, calls[i].settings, req)
       IN  calls' = [calls EXCEPT ![i].resp = out.resp,
                                  ![i].err = out.err,
                                  ![i].pc = "post"]
    /\ UNCHANGED <<c_settings, concFrame>>

\* the transport answers caller i: httpClient.Do returns a response and
\* doRequest goes on to read its body
ConcResponse(i) ==
    /\ calls[i].pc = "sending"
    /\ calls' = [calls EXCEPT ![i].pc = "reading"]
    /\ UNCHANGED <<c_settings, concFrame>>

\* the body of caller i's response is read: doRequest returns what the
\* round trip rt delivered
ConcReadReturn(i, rt) ==
    /\ calls[i].pc = "reading"
    /\ rt.send = "ok"
    /\ LET out == doRequest(calls[i].attempts, rt, ctx, calls[i].settings, req)
       IN  calls' = [calls EXCEPT ![i].resp = out.resp,
                                  ![i].err = out.err,
                                  ![i].pc = "post"]
    /\ UNCHANGED <<c_settings, concFrame>>

\* caller i: settings.postRequestHookFn(req, resp)
ConcPostHook(i) ==
    /\ calls[i].pc = "post"
    /\ calls' = [calls EXCEPT ![i].postCalls = PostHookCalls(@, calls[i].err),
                              ![i].pc = "cond"]
    /\ UNCHANGED <<c_settings, concFrame>>

\* caller i: the retry predicate and the break
ConcRetryCondition(i) ==
    /\ calls[i].pc = "cond"
    /\ calls' = [calls EXCEPT ![i].pc =
                    AfterCondition(RetryConditionFn(calls[i].settings.retryConditionFn,
                                                    calls[i].resp, calls[i].err))]
    /\ UNCHANGED <<c_settings, concFrame>>

\* caller i: the timer of the select fires, the loop goes on
ConcCaseTimer(i) ==
    /\ calls[i].pc = "select"
    /\ calls' = [calls EXCEPT ![i].retryTime = @ + calls[i].settings.retryDelayDelta,
                              ![i].r = NextRound(@),
                              ![i].pc = "loop"]
    /\ UNCHANGED <<c_settings, concFrame>>

\* caller i: the loop ended, Do returns
ConcFinish(i) ==
    /\ \/ calls[i].pc = "exit"
       \/ calls[i].pc = "loop" /\ ~LoopContinues(calls[i].r, calls[i].retryCount)
    /\ calls' = [calls EXCEPT ![i].ret = FinalReturn(calls[i].settings,
                                                     calls[i].resp, calls[i].err),
                              ![i].pc = "done"]
    /\ UNCHANGED <<c_settings, concFrame>>

ConcNext ==
    \/ \E t \in CallerTransports : SetTransport(t)
    \/ \E i \in Callers, o \in CallOptLists : ConcDoStart(i, o)
    \/ \E i \in Callers : ConcTake(i)
    \/ \E i \in Callers : ConcTakeReturn(i)
    \/ \E i \in Callers : ConcPreHook(i)
    \/ \E i \in Callers : ConcSend(i)
    \/ \E i \in Callers, rt \in ConcRoundTrips : ConcReceive(i, rt)
    \/ \E i \in Callers : ConcResponse(i)
    \/ \E i \in Callers, rt \in ConcRoundTrips : ConcReadReturn(i, rt)
    \/ \E i \in Callers : ConcPostHook(i)
    \/ \E i \in Callers : ConcRetryCondition(i)
    \/ \E i \in Callers : ConcCaseTimer(i)
    \/ \E i \in Callers : ConcFinish(i)

ConcSpec == ConcInit /\ [][ConcNext]_vars

----------------------------------------------------------------------------
(* Chains of RequestBuilder calls *)

BuilderInit ==
    /\ c_settings = NewWithClient(<<>>)
    /\ httpClient = NewWithClientHTTP(ZeroHTTPClient, <<>>)
    /\ req = NewRequest(<<>>, "Background")
    /\ callOpts = <<>>
    /\ takenOn = "none"
    /\ call = [fn |-> "none"]
    /\ result = [fn |-> "none"]
    /\ rb = NewRequestBuilder
    /\ calls = [i \in Callers |-> IdleCall]
    /\ hookArgs = [called |-> FALSE]
    /\ chain = <<>>
    /\ settings = newDefaultSettings
    /\ pc = "building"
    /\ ctx = "active"
    /\ timer = "off"
    /\ timerDur = 0
    /\ r = 0
    /\ retryCount = 0
    /\ retryTime = 0
    /\ resp = NilResp
    /\ err = NoErr
    /\ mustRetry = FALSE
    /\ ret = [resp |-> NilResp, err |-> NoErr]
    /\ takes = 0
    /\ preCalls = 0
    /\ attempts = 0
    /\ postCalls = 0
    /\ condCalls = 0
    /\ waits = 0
    /\ bothReady = FALSE
    /\ canceledInWait = FALSE
    /\ allFailed = TRUE

\* one setter call on the builder
CallSetter(c) ==
    /\ pc = "building"
    /\ Len(chain) < MaxChain
    /\ rb' = ApplySetter(rb, c)
    /\ chain' = Append(chain, [op |-> c.op, err |-> SetterErr(c)])
    /\ call' = [fn |-> c.op]
    /\ UNCHANGED <<doVars, pc, result>>

\* one call of Build on the builder
CallBuild ==
    /\ pc = "building"
    /\ Len(chain) < MaxChain
    /\ result' = [req |-> Build(rb).req, err |-> Build(rb).err]
    /\ rb' = Build(rb).rb
    /\ chain' = Append(chain, [op |-> "Build", err |-> Build(rb).err])
    /\ call' = [fn |-> "Build"]
    /\ UNCHANGED <<doVars, pc>>

BuilderNext ==
    \/ \E c \in BuilderCalls : CallSetter(c)
    \/ CallBuild

BuilderSpec == BuilderInit /\ [][BuilderNext]_vars

----------------------------------------------------------------------------
(* Properties of Client.Do *)

\* the call has passed the pre-request hook without a veto
HookPassed == preCalls > 0 /\ PreRequestHookFn(settings.preRequestHookFn) = NoErr

\* max(1, retryCount) of the effective settings
Budget == IF settings.retryCount < 1 THEN 1 ELSE settings.retryCount

\* C1: in every call of Do the rate limiter's Take is invoked exactly once:
\* never more than once, and it has been invoked by the time the pre-request
\* hook runs, so before the first attempt and before every retry.
C1_TakeOncePerCall ==
    /\ takes <= 1
    /\ (pc \notin {"idle", "take"}) => takes = 1
    /\ (preCalls > 0 \/ attempts > 0) => takes = 1

\* a call that made a retry and returned, with one Take
C1_Witness == pc = "done" /\ attempts > 1 /\ takes = 1

\* C2: when the pre-request hook returns an error, no attempt is made, the
\* post-request hook and the retry predicate are never called, and Do
\* returns a nil response with exactly the hook's error.
C2_PreHookVeto ==
    (preCalls > 0 /\ PreRequestHookFn(settings.preRequestHookFn) # NoErr) =>
        /\ attempts = 0
        /\ postCalls = 0
        /\ condCalls = 0
        /\ pc = "done"
        /\ ret = [resp |-> NilResp,
                  err  |-> PreRequestHookFn(settings.preRequestHookFn)]

\* a call the pre-request hook vetoed
C2_Witness ==
    pc = "done" /\ preCalls = 1 /\ settings.preRequestHookFn = "veto"
    /\ ret.err = AbortErr

\* the case of C3: N > 1 attempts allowed, the default predicate (always
\* true), the context never ended, every attempt failed, Do has returned
C3_Case ==
    /\ pc = "done"
    /\ HookPassed
    /\ settings.retryCount > 1
    /\ settings.retryConditionFn = "default"
    /\ ctx = "active"
    /\ allFailed

\* C3 as stated: in that case Do makes exactly N attempts and returns the
\* response and the error of the Nth attempt.
C3_ReturnsNthPair ==
    C3_Case => (attempts = settings.retryCount /\ ret = [resp |-> resp, err |-> err])

\* C3, amended: in that case Do makes exactly N attempts and returns a nil
\* response with the exhaustion error that names N and wraps the error of
\* the Nth attempt.
C3_ReturnsWrappedNthError ==
    C3_Case =>
        /\ attempts = settings.retryCount
        /\ resp.att = settings.retryCount
        /\ err # NoErr
        /\ ret.resp = NilResp
        /\ Len(ret.err) = Len(err) + 1
        /\ Head(ret.err) = Layer("failed to send request after attempt(s)", settings.retryCount)
        /\ Unwrap(ret.err) = err

\* the case of C3 with N = MaxRetry failed attempts
C3_Witness == C3_Case /\ attempts = MaxRetry /\ ErrIs(ret.err, Layer("transport", MaxRetry))

\* C4: for every configured retry count <= 0, a call the pre-request hook
\* did not veto makes exactly one attempt.
C4_OneAttemptForNonPositive ==
    (HookPassed /\ settings.retryCount <= 0) =>
        /\ attempts <= 1
        /\ pc = "done" => attempts = 1

\* a returned call with a negative retry count and one attempt
C4_Witness ==
    pc = "done" /\ HookPassed /\ settings.retryCount < 0 /\ attempts = 1

\* C5: in every state the number of attempts made so far is at most
\* max(1, retryCount), whatever the retry predicate answers.
C5_AttemptCeiling == pc # "idle" => attempts <= Budget

\* a call that used all of a budget of more than one attempt with the
\* predicate still asking for a retry
C5_Witness ==
    pc = "done" /\ attempts = Budget /\ attempts > 1 /\ mustRetry

\* C6 as stated: when the retry predicate answers false for an attempt's
\* pair, Do returns exactly that pair, also when its error is non-nil.
C6_StopReturnsPair ==
    (pc = "done" /\ condCalls > 0 /\ ~mustRetry) => ret = [resp |-> resp, err |-> err]

\* C7: when the context ends while Do is parked in the wait between
\* attempts, Do returns a nil response and the context's own error, which
\* is not the exhaustion error and does not carry the previous attempt's
\* error.
C7_CancelInWait ==
    (pc = "done" /\ canceledInWait) =>
        /\ ret = [resp |-> NilResp, err |-> CtxErr(ctx)]
        /\ ret.err \in { <<Layer("context.Canceled", 0)>>,
                         <<Layer("context.DeadlineExceeded", 0)>> }
        /\ \A i \in 1..Len(ret.err) :
              ret.err[i].k # "failed to send request after attempt(s)"

\* a call ended by a deadline during the wait that followed a failed attempt
C7_Witness ==
    /\ pc = "done"
    /\ canceledInWait
    /\ ctx = "deadline"
    /\ err # NoErr
    /\ ret.err = <<Layer("context.DeadlineExceeded", 0)>>

\* C8 as stated: when Do has used up its attempt budget, it returns an error
\* wrapping the last attempt's error if that attempt failed, and the last
\* attempt's response with a nil error if it did not.
C8_ExhaustionResult ==
    (pc = "done" /\ HookPassed /\ attempts = Budget) =>
        /\ err # NoErr => (ret.err # NoErr /\ Unwrap(ret.err) = err)
        /\ err = NoErr => ret = [resp |-> resp, err |-> NoErr]

\* C9 as stated: the wait that follows the k-th attempt lasts
\* retryDelay + (k-1) * retryDelayDelta.
C9_AdditiveDelay ==
    timer # "off" =>
        timerDur = settings.retryDelay + (attempts - 1) * settings.retryDelayDelta

\* C10 as stated: when the select finds the context's end and the delay's
\* expiry both ready, Do takes the cancellation branch.
C10_CancelPreempts == ~(bothReady /\ pc = "case_timer")

\* whether an error chain holds the error of an ended context
IsCtxErr(e) ==
    \E i \in 1..Len(e) :
        e[i].k \in {"context.Canceled", "context.DeadlineExceeded"}

\* whether an error chain holds the exhaustion error of Do
IsExhaustionErr(e) ==
    \E i \in 1..Len(e) : e[i].k = "failed to send request after attempt(s)"

\* C11 as stated: whenever Do returns an error because the request's
\* context was canceled or expired, also when the cancellation surfaces as
\* the error of a transport attempt, the returned error is not wrapped in
\* the exhaustion error.
C11_CancelNeverWrapped ==
    (pc = "done" /\ ctx # "active" /\ IsCtxErr(ret.err)) =>
        ~IsExhaustionErr(ret.err)

\* C12: with no retry predicate supplied, the default predicate returns true
\* for every (response, error) pair, so with retryCount = N >= 1 and a
\* context that is never canceled a returned Do has made exactly N attempts,
\* also when an earlier attempt returned a response without error.
C12_DefaultUsesFullBudget ==
    /\ (settings.retryConditionFn = "default" /\ condCalls > 0) => mustRetry
    /\ (/\ pc = "done"
        /\ HookPassed
        /\ settings.retryConditionFn = "default"
        /\ settings.retryCount >= 1
        /\ ctx = "active") => attempts = settings.retryCount

\* a returned call with the default predicate that made all MaxRetry attempts
\* although one of them returned a response without error
C12_Witness ==
    /\ pc = "done"
    /\ HookPassed
    /\ settings.retryConditionFn = "default"
    /\ settings.retryCount = MaxRetry
    /\ ctx = "active"
    /\ ~allFailed
    /\ attempts = MaxRetry

\* the settings fields a call of Do reads
CallFields ==
    {"rateLimiter", "retryCount", "retryDelay", "retryDelayDelta",
     "retryConditionFn", "preRequestHookFn", "postRequestHookFn",
     "decompressionEnabled"}

\* whether an option list holds an option of the given name
HasOption(opts, name) == \E i \in 1..Len(opts) : opts[i].op = name

\* C13: a call of Do with at least one option uses, for the rate limiter,
\* retry count, delay, delta, predicate, hooks and decompression flag, a
\* fresh default settings value with only the given options applied, and no
\* client-scoped value: the client's own limiter is not acquired and the
\* client's retry count is ignored. A call with no option uses the client's
\* standing settings.
C13_CallOptionsReplace ==
    pc # "idle" =>
        /\ Len(callOpts) = 0 => settings = c_settings
        /\ Len(callOpts) > 0 =>
            /\ \A f \in CallFields :
                  settings[f] = ApplyOptions(callOpts, newDefaultSettings)[f]
            /\ (takes > 0 /\ c_settings.rateLimiter = "client") =>
                  takenOn \in {"unlimited", "custom"}
            /\ ~HasOption(callOpts, "WithRetryCount") =>
                  /\ settings.retryCount = newDefaultSettings.retryCount
                  /\ attempts <= 1
            /\ ~HasOption(callOpts, "WithRetryCondition") =>
                  settings.retryConditionFn = "default"

\* a returned call with options on a client that has its own limiter and a
\* retry count of MaxRetry: the fresh default limiter was acquired and one
\* attempt was made
C13_Witness ==
    /\ pc = "done"
    /\ Len(callOpts) > 0
    /\ c_settings.rateLimiter = "client"
    /\ c_settings.retryCount = MaxRetry
    /\ takenOn = "unlimited"
    /\ attempts = 1

\* a returned call without options on that client: its own limiter was
\* acquired and MaxRetry attempts were made
C13_WitnessNoOptions ==
    /\ pc = "done"
    /\ Len(callOpts) = 0
    /\ c_settings.rateLimiter = "client"
    /\ takenOn = "client"
    /\ attempts = MaxRetry

\* C14: the post-request hook is invoked exactly once per attempt, after the
\* attempt has completed (also when it failed) and before the retry
\* predicate is evaluated for it; the post-hook calls of a Do call are as
\* many as its attempts.
C14_PostHookPerAttempt ==
    /\ pc \in {"sending", "reading", "post"} => postCalls = attempts - 1
    /\ pc \notin {"sending", "reading", "post"} => postCalls = attempts
    /\ pc = "cond" => condCalls = postCalls - 1
    /\ pc # "cond" => condCalls = postCalls
    /\ pc = "done" => postCalls = attempts

\* a returned call of MaxRetry attempts, all failed, with MaxRetry hook calls
C14_Witness ==
    /\ pc = "done"
    /\ allFailed
    /\ attempts = MaxRetry
    /\ postCalls = MaxRetry

\* C15: the pre-request hook is invoked exactly once per Do call, after the
\* rate limiter acquire and before the first attempt, and is not invoked
\* again before retries.
C15_PreHookOnce ==
    /\ preCalls <= 1
    /\ pc \notin {"idle", "take", "taking", "pre"} => preCalls = 1
    /\ pc = "pre" => (takes = 1 /\ attempts = 0)
    /\ preCalls > 0 => takes = 1
    /\ attempts > 0 => preCalls = 1

\* a returned call that made MaxRetry attempts with a wait between them
\* and one call of the hook
C15_Witness ==
    /\ pc = "done"
    /\ attempts = MaxRetry
    /\ waits >= MaxRetry - 1
    /\ preCalls = 1

\* whether a body is the gzip encoding of some plaintext
IsGzipOf(b, p) == b = GzipEncode(p)

\* C16: the engine never turns an HTTP status into an error: an attempt
\* whose round trip succeeds and whose body is read completely returns a nil
\* error for every status code, 4xx and 5xx included, and the response keeps
\* that status code and body.
C16_StatusIsNotAnError ==
    (/\ pc = "returned"
     /\ call.fn = "doRequest"
     /\ call.rt.send = "ok"
     /\ call.rt.read = "ok") =>
        /\ ~UseGzip(call.st, call.rq) =>
              /\ result.err = NoErr
              /\ StatusCode(result.resp) = call.rt.status
              /\ Bytes(result.resp) = call.rt.body
        /\ \A p \in Plaintexts :
              (UseGzip(call.st, call.rq) /\ IsGzipOf(call.rt.body, p)) =>
                  /\ result.err = NoErr
                  /\ StatusCode(result.resp) = call.rt.status
                  /\ Bytes(result.resp) = p

\* an attempt answered with status 500 and a body of MaxBody bytes that
\* returned a nil error
C16_Witness ==
    /\ pc = "returned"
    /\ call.fn = "doRequest"
    /\ call.rt.send = "ok"
    /\ call.rt.read = "ok"
    /\ call.rt.status = StatusInternalServerError
    /\ Len(call.rt.body) = MaxBody
    /\ result.err = NoErr
    /\ StatusCode(result.resp) = StatusInternalServerError

\* whether the request carries the gzip signal, Accept: application/gzip
HasGzipSignal(rq) == \E i \in 1..Len(rq.accept) : rq.accept[i] = AcceptGzipHeader

\* C18: for every plaintext body P, with decompression enabled and the gzip
\* signal on the request, a response body that is the gzip encoding of P is
\* materialized with Response.Bytes equal to P; with decompression disabled,
\* Response.Bytes is the compressed bytes exactly as received.
C18_GzipRoundTrip ==
    (/\ pc = "returned"
     /\ call.fn = "doRequest"
     /\ call.rt.send = "ok"
     /\ call.rt.read = "ok") =>
        /\ \A p \in Plaintexts :
              (/\ call.st.decompressionEnabled
               /\ HasGzipSignal(call.rq)
               /\ call.rt.body = GzipEncode(p)) =>
                  /\ result.err = NoErr
                  /\ Bytes(result.resp) = p
        /\ ~call.st.decompressionEnabled =>
              /\ result.err = NoErr
              /\ Bytes(result.resp) = call.rt.body

\* a gzip-encoded plaintext of MaxBody bytes, not all equal, decoded to
\* itself, the encoding being another byte string
C18_Witness ==
    /\ pc = "returned"
    /\ call.fn = "doRequest"
    /\ call.st.decompressionEnabled
    /\ HasGzipSignal(call.rq)
    /\ call.rt.send = "ok"
    /\ call.rt.read = "ok"
    /\ result.err = NoErr
    /\ Len(Bytes(result.resp)) = MaxBody
    /\ Bytes(result.resp)[1] # Bytes(result.resp)[MaxBody]
    /\ call.rt.body = GzipEncode(Bytes(result.resp))
    /\ call.rt.body # Bytes(result.resp)

\* a gzip-encoded body passed through unchanged with decompression disabled
\* although the request carries the gzip signal
C18_WitnessDisabled ==
    /\ pc = "returned"
    /\ call.fn = "doRequest"
    /\ ~call.st.decompressionEnabled
    /\ HasGzipSignal(call.rq)
    /\ \E p \in Plaintexts : Len(p) = MaxBody /\ call.rt.body = GzipEncode(p)
    /\ Bytes(result.resp) = call.rt.body

\* C19 as stated: every Response accessor called on a nil *Response or on a
\* zero-initialized Response returns its type's zero or empty value and does
\* not panic.
C19_AccessorsNilSafe ==
    (/\ pc = "returned"
     /\ call.fn = "accessor"
     /\ call.rp \in {NilResp, ZeroResp}) =>
        /\ ~result.panic
        /\ result.val = ZeroValue(call.name)

\* C20: for two ResponseError values a and b, a.Is(b) holds exactly when
\* a.Code = b.Code, whatever their messages, so the relation is reflexive
\* and symmetric; a.Is(t) is false for a target t that is not and does not
\* wrap a ResponseError.
C20_IsByCode ==
    /\ (pc = "returned" /\ call.fn = "Is") =>
          /\ ~result.panic
          /\ \A b \in ResponseErrors :
                call.target = <<b>> => result.val.bool = (call.e.n = b.n)
          /\ (\A i \in 1..Len(call.target) : call.target[i].k # "ResponseError")
                => result.val.bool = FALSE
    /\ \A a \in ResponseErrors : ResponseErrorIs(a, <<a>>)
    /\ \A a, b \in ResponseErrors :
          ResponseErrorIs(a, <<b>>) = ResponseErrorIs(b, <<a>>)

\* a.Is(b) returned true for two errors of one code and different messages
C20_Witness ==
    /\ pc = "returned"
    /\ call.fn = "Is"
    /\ Len(call.target) = 1
    /\ call.target[1].k = "ResponseError"
    /\ call.target[1].n = call.e.n
    /\ call.target[1].m # call.e.m
    /\ result.val.bool

\* a.Is(t) returned false for a target holding no ResponseError
C20_WitnessOther ==
    /\ pc = "returned"
    /\ call.fn = "Is"
    /\ call.target = Wrap(Layer("url.Error", 1), CtxErr("canceled"))
    /\ ~result.val.bool

\* C17 as stated: with a timeout configured through WithTimeout and a
\* transport that never responds, a Do call on a request whose context
\* carries no deadline of its own eventually returns a deadline-classified
\* error, whatever the retry count. In finite-run form: while such a call
\* waits for the transport, something can still end the wait; a state where
\* nothing can is a call that never returns.
C17_TimeoutEndsTheCall ==
    (/\ pc = "sending"
     /\ settings.timeout > 0
     /\ req.ctx = "Background") => ENABLED DoNext

\* the wait of a call on an http.Client that has its own Timeout can end
TimeoutOfClientEnds ==
    (pc = "sending" /\ httpClient.Timeout > 0) =>
        ENABLED (\E cause \in {"ctx", "timeout"} : SendReturn(cause))

\* C21 as stated: both suspension points of Do observe cancellation: a call
\* blocked in the rate limiter's Take returns as soon as the request's
\* context ends, without waiting for Take, as a call parked in the delay
\* wait does; Do is never blocked where cancellation cannot release it.
C21_TakeObservesCancellation ==
    pc \in {"taking", "parked"} => ctx = "active"

\* the error of the first failed setter call of a chain
RECURSIVE FirstSetterErr(_)
FirstSetterErr(ch) ==
    IF ch = <<>> THEN NoErr
    ELSE IF Head(ch).op # "Build" /\ Head(ch).err # NoErr THEN Head(ch).err
    ELSE FirstSetterErr(Tail(ch))

\* C22 as stated: the builder records the first error met by any setter and
\* Build surfaces it: once a setter call has failed, Build returns that first
\* error and a nil request, whatever setter calls follow it in the chain.
C22_BuildReturnsFirstError ==
    (call.fn = "Build" /\ FirstSetterErr(chain) # NoErr) =>
        /\ result.err = FirstSetterErr(chain)
        /\ result.req.nil

\* C23: after the retry predicate has returned false for an attempt, Do
\* makes no further attempt, invokes no further hook and does not enter the
\* delay wait before it returns.
C23_StopIsImmediate ==
    (condCalls > 0 /\ ~mustRetry) =>
        /\ pc \in {"exit", "done"}
        /\ attempts = condCalls
        /\ postCalls = condCalls
        /\ preCalls = 1
        /\ waits = condCalls - 1

\* a returned call whose predicate asked for one retry and then stopped,
\* with attempts left in the budget
C23_Witness ==
    /\ pc = "done"
    /\ ~mustRetry
    /\ condCalls = 2
    /\ attempts = 2
    /\ waits = 1
    /\ settings.retryCount = MaxRetry

\* C24 as stated: after the last permitted attempt, attempt number
\* max(1, retryCount), Do leaves the loop without waiting the retry delay and
\* without consulting the context: a call that made k attempts has made k-1
\* delay waits, and a cancellation after the last attempt does not replace
\* that attempt's result.
C24_NoWaitAfterLastAttempt ==
    (HookPassed /\ attempts = Budget /\ pc \notin {"sending", "reading", "post", "cond"}) =>
        /\ waits = attempts - 1
        /\ pc = "done" => ret = FinalReturn(settings, resp, err)

\* C25 as stated: the attempt count named in the exhaustion error is the
\* number of transport attempts Do made in that call, for every configured
\* retry count, those <= 0 included, where one attempt is made.
C25_ErrorNamesAttemptsMade ==
    (pc = "done" /\ IsExhaustionErr(ret.err)) => ret.err[1].n = attempts

\* the predicates that ask for a retry of an attempt that returned an error
RetriesErrors == {"default", "onError"}

\* what doRequest returns when the transport fails, and where Do takes it:
\* a non-nil Response with no body (StatusCode 0, empty Bytes) and the
\* transport's error unchanged; Do holds that pair in resp and err, gives
\* it to the retry predicate, and the predicates that retry errors ask for
\* a retry
FailedPairReturned ==
    (call.fn = "doRequest" /\ call.rt.send = "fail") =>
        /\ result.resp.att # 0
        /\ StatusCode(result.resp) = 0
        /\ Bytes(result.resp) = <<>>
        /\ result.err = <<Layer("transport", attempts)>>
        /\ pc \in {"post", "cond"} => (resp = result.resp /\ err = result.err)
        /\ (condCalls = attempts /\ settings.retryConditionFn \in RetriesErrors)
              => mustRetry

\* a state in which the pair of a failed transport is before the predicate
FailedPairAtPredicate ==
    /\ pc = "cond" /\ call.fn = "doRequest" /\ call.rt.send = "fail"
    /\ attempts = 2 /\ allFailed /\ resp.att = 2
    /\ err = <<Layer("transport", 2)>>

\* C26: when the transport fails, the attempt returns a non-nil Response
\* with no body (StatusCode 0, empty Bytes) and the transport's error
\* unchanged; that pair, the response and the error, is passed to the
\* post-request hook and to the retry predicate, and the attempt counts as
\* retryable.
C26_TransportFailurePair ==
    /\ FailedPairReturned
    /\ (pc = "cond" /\ call.fn = "doRequest" /\ call.rt.send = "fail") =>
          /\ hookArgs.called
          /\ hookArgs.resp = resp
          /\ "err" \in DOMAIN hookArgs
          /\ hookArgs.err = err

\* C27: for every attempt in which the transport returns a response, the
\* raw response body is closed before the attempt returns, on every exit
\* path: successful read, failure to construct the decoding reader, failure
\* while reading.
C27_BodyClosedOnEveryPath ==
    (call.fn = "doRequest" /\ call.rt.send = "ok" /\ pc \notin {"sending", "reading"}) =>
        \E i \in 1..Len(result.closers) : result.closers[i] = "Body"

\* an attempt that failed to construct the decoding reader and closed the body
C27_Witness ==
    /\ pc = "returned"
    /\ call.fn = "doRequest"
    /\ call.rt.send = "ok"
    /\ result.err # NoErr
    /\ result.err[1].k = "unable to wrap response in compression reader"
    /\ result.closers = <<"Body">>

\* C28 as stated: a failure to close the response body or the decoding
\* reader is neither masking nor dropped: an attempt that already has an
\* error of the decoder construction or of the read returns that error, and
\* an attempt with no earlier error returns the close failure as its error.
C28_CloseFailureReported ==
    (/\ pc = "returned"
     /\ call.fn = "doRequest"
     /\ call.rt.send = "ok"
     /\ call.rt.close = "fail") =>
        /\ result.err # NoErr
        /\ ExitPath(1, call.rt, call.st, call.rq) = "wrap" =>
              result.err[1].k = "unable to wrap response in compression reader"
        /\ ExitPath(1, call.rt, call.st, call.rq) = "read" =>
              result.err[1].k = "failed to read response bytes"
        /\ ExitPath(1, call.rt, call.st, call.rq) = "ok" =>
              result.err = <<Layer("close", 0)>>

\* the errors of a round trip that succeeded and was not materialized
MaterializationErrs ==
    {"unable to wrap response in compression reader",
     "failed to read response bytes"}

\* C29: if constructing the decoding reader or draining the body fails
\* after a successful round trip, the attempt returns a non-nil error that
\* wraps the cause and a non-nil Response that still carries the raw
\* response, so its status code and headers; the pair goes to the retry
\* predicate and the failure is retried like a transport error.
C29_MaterializationErrorPair ==
    (call.fn = "doRequest" /\ call.rt.send = "ok" /\ pc \notin {"sending", "reading"}
        /\ result.err # NoErr) =>
        /\ result.err[1].k \in MaterializationErrs
        /\ Len(result.err) >= 2
        /\ result.resp.att # 0
        /\ result.resp.raw
        /\ StatusCode(result.resp) = call.rt.status
        /\ pc \in {"post", "cond"} => (resp = result.resp /\ err = result.err)
        /\ (condCalls = attempts /\ settings.retryConditionFn \in RetriesErrors)
              => mustRetry

\* the second attempt of a call failed while reading the body, after the
\* first was retried because it failed as well
C29_Witness ==
    /\ pc = "cond"
    /\ call.fn = "doRequest"
    /\ call.rt.send = "ok"
    /\ call.rt.read = "fail"
    /\ attempts = 2
    /\ allFailed
    /\ err # NoErr
    /\ err[1].k = "failed to read response bytes"
    /\ StatusCode(resp) = StatusOK

\* an attempt of Do that failed to construct the decoding reader
C29_WitnessWrap ==
    /\ pc = "post"
    /\ call.fn = "doRequest"
    /\ err # NoErr
    /\ err[1].k = "unable to wrap response in compression reader"
    /\ StatusCode(resp) = StatusInternalServerError

\* the spellings of the gzip signal, compared without regard to case
GzipSpellings == {"application/gzip", "Application/GZIP"}

\* C30: with decompression enabled, a response whose encoding signal names
\* no recognized format (no Accept value equal to application/gzip, compared
\* case-insensitively) is read through the raw body stream unmodified:
\* Response.Bytes is the raw bytes and the attempt returns no error.
C30_UnrecognizedPassesThrough ==
    (/\ pc = "returned"
     /\ call.fn = "doRequest"
     /\ call.rt.send = "ok"
     /\ call.rt.read = "ok"
     /\ call.st.decompressionEnabled
     /\ \A i \in 1..Len(call.rq.accept) : call.rq.accept[i] \notin GzipSpellings) =>
        /\ result.err = NoErr
        /\ Bytes(result.resp) = call.rt.body

\* a body that is a gzip stream, passed through as received under an Accept
\* header that names another format
C30_Witness ==
    /\ pc = "returned"
    /\ call.fn = "doRequest"
    /\ call.st.decompressionEnabled
    /\ call.rq.accept = << "Application/Json" >>
    /\ call.rt.send = "ok"
    /\ call.rt.read = "ok"
    /\ \E p \in Plaintexts : Len(p) = MaxBody /\ call.rt.body = GzipEncode(p)
    /\ result.err = NoErr
    /\ Bytes(result.resp) = call.rt.body

\* the attempts the settings of concurrent caller i allow
ConcBudget(i) == NormalizeRetryCount(calls[i].settings.retryCount)

\* what holds of caller i in every state of an interleaving
ConcCallIsLocal(i) ==
    calls[i].pc # "idle" =>
       /\ calls[i].opts = <<>> => calls[i].settings = c_settings
       /\ calls[i].opts # <<>> =>
             calls[i].settings = ApplyOptions(calls[i].opts, newDefaultSettings)
       /\ calls[i].pc # "take" => calls[i].takes = 1
       /\ calls[i].attempts <= ConcBudget(i)
       /\ calls[i].pc \in {"sending", "reading", "post", "cond", "select", "exit"}
             => calls[i].attempts = calls[i].r + 1
       /\ calls[i].pc = "loop" => calls[i].attempts = calls[i].r
       /\ calls[i].postCalls =
             (IF calls[i].pc \in {"sending", "reading", "post"} THEN calls[i].attempts - 1
              ELSE calls[i].attempts)
       /\ (calls[i].pc = "done" /\ calls[i].settings.retryConditionFn = "default"
           /\ calls[i].settings.preRequestHookFn = "default")
             => calls[i].attempts = ConcBudget(i)

\* C31: in every interleaving of concurrent Do calls on one client, no step
\* writes the client's standing settings, a call without overrides runs with
\* the standing settings and a call with overrides with fresh defaults plus
\* its options, and each call makes its own single limiter acquire and counts
\* its own attempts up to its own budget
C31_CallLocalState ==
    /\ [](\A i \in Callers : ConcCallIsLocal(i))
    /\ [][c_settings' = c_settings]_vars

\* a call with overrides waits for the answer to its first attempt while a
\* call without overrides on the same client has run to its end with the
\* client's budget
C31_Witness ==
    /\ calls[1].opts # <<>>
    /\ calls[1].pc = "sending"
    /\ calls[1].attempts = 1
    /\ calls[2].opts = <<>>
    /\ calls[2].pc = "done"
    /\ calls[2].attempts >= 2
    /\ calls[2].settings # calls[1].settings

\* C32: Do is in the delay wait (the select on time.After) only after an
\* attempt that returned an error; an attempt that returned a response and
\* no error is not followed by a wait
C32_DelayOnlyAfterFailure ==
    pc \in {"select", "parked", "case_timer"} => err # NoErr

\* C33: every attempt of a call that was given WithTransport is sent
\* through the transport of that option, not through the client's transport
C33_CallTransportIsUsed ==
    (call.fn = "doRequest" /\ HasOption(callOpts, "WithTransport")) =>
        /\ call.via = ApplyOptions(callOpts, newDefaultSettings).transport
        /\ (c_settings.transport # "nil" => call.via # c_settings.transport)

\* the order of the positions of Do within one round of the loop and
\* around it, later positions lower
PhaseRank ==
    CASE pc = "idle" -> 17 [] pc = "take" -> 16 [] pc = "taking" -> 15
      [] pc = "pre" -> 14 [] pc = "loop" -> 13 [] pc = "sending" -> 12
      [] pc = "reading" -> 11 [] pc = "post" -> 10 [] pc = "cond" -> 9 [] pc = "select" -> 8
      [] pc = "parked" -> 7 [] pc = "case_timer" -> 6 [] pc = "case_ctx" -> 2
      [] pc = "exit" -> 2 [] OTHER -> 0

\* the rounds of the loop Do may still begin
RoundsLeft ==
    IF pc \in {"idle", "take", "taking", "pre"} THEN MaxRetry + 1
    ELSE IF pc \in {"exit", "case_ctx", "done"} THEN 0
    ELSE retryCount - r

\* a variant of Do: the rounds left, then the position within the round,
\* then the timer that may still fire and the context that may still end
Variant ==
    100 * RoundsLeft + 4 * PhaseRank
      + (IF timer = "armed" THEN 2 ELSE 0)
      + (IF req.ctx = "WithTimeout" /\ ctx = "active" THEN 1 ELSE 0)

\* Do is inside a call that has not returned: the transport's round trip,
\* or the read of a body that stalls
WaitsForTransport ==
    pc = "sending" \/ (pc = "reading" /\ call.rt.read = "stall")

\* C34: every step of a Do call, and every firing of its timer or ending of
\* its context, lowers a non-negative variant, so no call runs forever
\* (the caller's SetTransport, the one step that writes the http.Client, is
\* not a step of Do); a call that has not returned can take a step unless
\* it waits for a transport attempt to return; and a call that returned
\* made at most max(1, retryCount) attempts
C34_DoTerminates ==
    /\ [][httpClient' = httpClient => Variant' < Variant]_vars
    /\ [](Variant >= 0)
    /\ []((pc # "done" /\ ~WaitsForTransport) => ENABLED DoNext)
    /\ [](pc = "done" => attempts <= Budget)

\* a call returned after its full budget of attempts and waits, a retry
\* count above one and a context that was never canceled
C34_Witness ==
    /\ pc = "done"
    /\ ctx = "active"
    /\ attempts = MaxRetry
    /\ waits = MaxRetry
    /\ settings.retryDelayDelta > 0

\* C35: the settings built from newDefaultSettings by any list of options,
\* options with nil arguments included, hold a non-nil rate limiter,
\* pre-request hook, post-request hook and retry predicate
C35_NoNilCallable ==
    call.fn = "options" =>
        /\ result.val.settings.rateLimiter # "nil"
        /\ result.val.settings.preRequestHookFn # "nil"
        /\ result.val.settings.postRequestHookFn # "nil"
        /\ result.val.settings.retryConditionFn # "nil"

\* the number of Close calls on the raw response body among the deferred calls
RECURSIVE BodyCloses(_)
BodyCloses(closers) ==
    IF closers = <<>> THEN 0
    ELSE (IF Head(closers) = "Body" THEN 1 ELSE 0) + BodyCloses(Tail(closers))

\* C36: an attempt in which the transport returned a response closes the
\* raw response body exactly once, whatever the decompression flag and
\* whether or not the gzip reader was selected
C36_BodyClosedOnce ==
    (call.fn = "doRequest" /\ call.rt.send = "ok") =>
        BodyCloses(result.closers) = 1

\* C37: in every attempt of a Do call the transport has the whole body
\* of the request to send, and no attempt fails on a body an earlier attempt
\* of the call has read
C37_SameBodyEveryAttempt ==
    (call.fn = "doRequest" /\ pc # "sending") =>
        /\ call.avail = call.rq.body
        /\ call.rt.send # "short"

\* C38: NewWithClient given an http.Client with a Transport or a Jar of its
\* own, and no WithTransport (no WithCookieJar) option, leaves the client's
\* Transport (Jar) as it was
C38_PresetTransportKept ==
    call.fn = "NewWithClient" =>
        /\ (call.hc.Transport # "nil" /\ ~HasOption(call.opts, "WithTransport")) =>
              result.val.client.Transport = call.hc.Transport
        /\ (call.hc.Jar # "nil" /\ ~HasOption(call.opts, "WithCookieJar")) =>
              result.val.client.Jar = call.hc.Jar

\* C39: a Build called right after a Build on the same builder returns a
\* request with the same URL as the first, and every Build leaves the
\* builder's stored URL and query parameters as they were
C39_BuildRepeatable ==
    [][ /\ (call'.fn = "Build" /\ chain' # chain) =>
              /\ rb'.url = rb.url
              /\ rb'.queryParams = rb.queryParams
        /\ (call.fn = "Build" /\ call'.fn = "Build" /\ chain' # chain
            /\ result.err = NoErr) =>
              /\ result'.err = NoErr
              /\ result'.req.url = result.req.url ]_vars

====
